---------------------------- MODULE Spec2Model ----------------------------
(***************************************************************************)
(* A model of orion-mcp: the Process Runner (run_command_async and the two *)
(* run_orion implementations), the Output Normalizer (extract_json_block   *)
(* and summarize_result) and the regression-check flow                     *)
(* (_extract_regression_details and _run_regression_checks).               *)
(*                                                                         *)
(* Strings of the program are TLA+ strings; a text the program builds by   *)
(* formatting is the record or sequence of the parts it is built from.     *)
(***************************************************************************)
EXTENDS Integers, Sequences, FiniteSets, TLC

VARIABLES
    environ,      \* os.environ of the server process: key -> value or Unset
    pc,           \* per task: position of its invocation
    inv,          \* per task: the invocation's arguments
    envBefore,    \* per task: os.environ when the invocation was called
    envVars,      \* per task: env_vars of run_command_async (the merged copy)
    child,        \* per task: the child process launched for the invocation
    fault,        \* per task: the launch failure the invocation met, if any
    result,       \* per task: what the invocation returned or raised
    loopHolder,   \* the task whose blocking call holds the event-loop thread
    calls,        \* per task: invocations made so far
    sumStdout,    \* result.stdout handed to summarize_result: a sequence of lines
    sumIsolate,   \* the isolate argument of summarize_result
    sumImpl,      \* which summarize_result ran
    sumResult,    \* what summarize_result returned
    sumPc,        \* "ready" before the call, "done" after
    exStdout,     \* the stdout handed to _extract_regression_details
    exOut,        \* what _extract_regression_details returned or raised
    exPc,         \* "ready" before the call, "done" after
    regTool,      \* the regression tool that was invoked
    regConfigs,   \* its list of configurations (or of versions)
    regIdx,       \* the configuration whose run_orion result is awaited
    regResults,   \* the run_orion results received so far
    regBlocks,    \* what it has collected so far: changepoints, or series
    regOut,       \* what the tool returned or raised
    regPc,        \* "idle", "awaiting", "returned" or "raised"
    csvBatch,     \* the results handed to convert_results_to_csv
    csvText,      \* the CSV text it returned
    csvOut,       \* what csv_to_graph returned
    csvPc         \* "ready", "encoded", "rendered" or "raised"

runnerVars == <<environ, pc, inv, envBefore, envVars, child, fault, result,
                loopHolder, calls>>

sumVars == <<sumStdout, sumIsolate, sumImpl, sumResult, sumPc>>

exVars == <<exStdout, exOut, exPc>>

regVars == <<regTool, regConfigs, regIdx, regResults, regBlocks, regOut, regPc>>

csvVars == <<csvBatch, csvText, csvOut, csvPc>>

\* the variables each component leaves alone
notRunnerVars == <<sumVars, exVars, regVars, csvVars>>

notSumVars == <<runnerVars, exVars, regVars, csvVars>>

notExVars == <<runnerVars, sumVars, regVars, csvVars>>

notRegVars == <<runnerVars, sumVars, exVars, csvVars>>

notCsvVars == <<runnerVars, sumVars, exVars, regVars>>

vars == <<environ, pc, inv, envBefore, envVars, child, fault, result,
          loopHolder, calls, sumStdout, sumIsolate, sumImpl, sumResult, sumPc,
          exStdout, exOut, exPc,
          regTool, regConfigs, regIdx, regResults, regBlocks, regOut, regPc,
          csvBatch, csvText, csvOut, csvPc>>

-----------------------------------------------------------------------------
(* Bounds and input alphabets. *)

MaxCalls == 1

MaxRuns == 2

MetricNames == {"cpu", "lat"}

MaxRecords == 2

MaxBatch == 2

MaxVersions == 2

Tasks == {"t1", "t2"}

Versions == {"4.19", "4.20"}

Urls == {"es1", "es2"}

Unset == "<unset>"

NoTask == "<none>"

\* Python's None where a str is expected: os.environ.get of an absent key
PyNone == "<None>"

EnvKeys == {"ES_SERVER", "version", "es_metadata_index", "es_benchmark_index", "PATH"}


ExitCodes == {0, 1, 3}

LaunchOutcomes == {"ok", "ENOENT", "EACCES"}

-----------------------------------------------------------------------------
(* Values the Process Runner hands back. *)

NoResult == [shape |-> "none", returncode |-> -1, stdout |-> "", stderr |-> "", text |-> ""]

\* subprocess.CompletedProcess(args, returncode, stdout, stderr)
CompletedProcess(rc, out, err) ==
    [shape |-> "ProcessResult", returncode |-> rc, stdout |-> out, stderr |-> err, text |-> ""]

\* a bare str returned in place of a CompletedProcess
BareString(msg) ==
    [shape |-> "str", returncode |-> -1, stdout |-> "", stderr |-> "", text |-> msg]

\* an exception that leaves the function
Raised(excType) ==
    [shape |-> "exception", returncode |-> -1, stdout |-> "", stderr |-> "", text |-> excType]

\* str(e) of the OSError a failed launch raises
Diagnostic(outcome) ==
    IF outcome = "ENOENT" THEN "No such file or directory" ELSE "Permission denied"

NoInv == [kind |-> "none", version |-> "", data_source |-> "", cmdIsList |-> TRUE,
          shell |-> FALSE, hasEnv |-> FALSE]

NoChild == [launched |-> FALSE, running |-> FALSE, env |-> [k \in EnvKeys |-> Unset]]

-----------------------------------------------------------------------------
(* The environment handed to the child. *)

\* env = {...} of run_orion: the four keys every invocation overrides
RunOrionEnv(data_source, version) ==
    [k \in {"ES_SERVER", "version", "es_metadata_index", "es_benchmark_index"} |->
        CASE k = "ES_SERVER" -> data_source
          [] k = "version" -> version
          [] k = "es_metadata_index" -> "perf_scale_ci*"
          [] OTHER -> "ripsaw-kube-burner-*"]

\* the mutant: the ambient value wins on a key both define
MergeEnvAmbientWins(ambient, overrides) ==
    [k \in EnvKeys |->
        IF k \in DOMAIN overrides /\ ambient[k] = Unset THEN overrides[k] ELSE ambient[k]]

\* env_vars = os.environ.copy(); env_vars.update(env)
MergeEnv(ambient, overrides) ==
    [k \in EnvKeys |-> IF k \in DOMAIN overrides THEN overrides[k] ELSE ambient[k]]

\* the overrides an invocation passes to run_command_async
Overrides(i) ==
    IF i.kind = "run_orion" THEN RunOrionEnv(i.data_source, i.version)
    ELSE [k \in {"version"} |-> i.version]

\* os.environ[...] = ... of the synchronous run_orion: four assignments
AssignEnviron(ambient, data_source, version) ==
    [k \in EnvKeys |->
        CASE k = "ES_SERVER" -> data_source
          [] k = "version" -> version
          [] k = "es_metadata_index" -> "perf_scale_ci*"
          [] k = "es_benchmark_index" -> "ripsaw-kube-burner-*"
          [] OTHER -> ambient[k]]

\* the isinstance checks of run_command_async
ArgsWellFormed(i) == IF i.shell THEN ~i.cmdIsList ELSE i.cmdIsList

-----------------------------------------------------------------------------
(* Invocations the callers can make. *)

RunOrionInvs ==
    [kind : {"run_orion"}, version : Versions, data_source : Urls \cup {"", PyNone},
     cmdIsList : {TRUE}, shell : {FALSE}, hasEnv : {TRUE}]

RunCommandInvs ==
    [kind : {"run_command"}, version : Versions, data_source : {""},
     cmdIsList : BOOLEAN, shell : BOOLEAN, hasEnv : BOOLEAN]

\* the legacy run_orion writes its data source into os.environ: one url
\* that differs from the ambient one
LegacyInvs ==
    [kind : {"legacy"}, version : Versions, data_source : {"es2"},
     cmdIsList : {TRUE}, shell : {FALSE}, hasEnv : {FALSE}]

RunnerInit ==
    /\ environ \in {[k \in EnvKeys |->
                        CASE k = "ES_SERVER" -> es
                          [] k = "version" -> v
                          [] k = "PATH" -> "/usr/bin"
                          [] OTHER -> Unset] : es \in {"es1", Unset}, v \in {"4.17", Unset}}
    /\ pc = [t \in Tasks |-> "idle"]
    /\ inv = [t \in Tasks |-> NoInv]
    /\ envBefore = [t \in Tasks |-> environ]
    /\ envVars = [t \in Tasks |-> [k \in EnvKeys |-> Unset]]
    /\ child = [t \in Tasks |-> NoChild]
    /\ fault = [t \in Tasks |-> "none"]
    /\ result = [t \in Tasks |-> NoResult]
    /\ loopHolder = NoTask
    /\ calls = [t \in Tasks |-> 0]

\* run_orion of utils.py up to its first suspension point: the data-source
\* check, the override map, then run_command_async's merge and type checks.
CallRunOrion(t) ==
    /\ UNCHANGED notRunnerVars
    /\ loopHolder = NoTask
    /\ pc[t] = "idle"
    /\ calls[t] < MaxCalls
    /\ \E i \in RunOrionInvs :
        /\ inv' = [inv EXCEPT ![t] = i]
        /\ IF i.data_source = ""
             THEN /\ pc' = [pc EXCEPT ![t] = "raised"]
                  /\ result' = [result EXCEPT ![t] = Raised("ValueError")]
                  /\ envVars' = envVars
             ELSE /\ pc' = [pc EXCEPT ![t] = "spawning"]
                  /\ result' = result
                  /\ envVars' = [envVars EXCEPT ![t] = MergeEnv(environ, Overrides(i))]
    /\ envBefore' = [envBefore EXCEPT ![t] = environ]
    /\ calls' = [calls EXCEPT ![t] = @ + 1]
    /\ UNCHANGED <<environ, child, fault, loopHolder>>

\* run_command_async called directly, up to its first suspension point
CallRunCommand(t) ==
    /\ UNCHANGED notRunnerVars
    /\ loopHolder = NoTask
    /\ pc[t] = "idle"
    /\ calls[t] < MaxCalls
    /\ \E i \in RunCommandInvs :
        /\ inv' = [inv EXCEPT ![t] = i]
        /\ envVars' = [envVars EXCEPT ![t] =
                          IF i.hasEnv THEN MergeEnv(environ, Overrides(i))
                          ELSE [k \in EnvKeys |-> Unset]]
        /\ IF ArgsWellFormed(i)
             THEN /\ pc' = [pc EXCEPT ![t] = "spawning"]
                  /\ result' = result
                  /\ fault' = fault
             ELSE \* raise TypeError(...): not an OSError, the except clause lets it pass
                  /\ pc' = [pc EXCEPT ![t] = "raised"]
                  /\ result' = [result EXCEPT ![t] = Raised("TypeError")]
                  /\ fault' = [fault EXCEPT ![t] = "badargs"]
    /\ envBefore' = [envBefore EXCEPT ![t] = environ]
    /\ calls' = [calls EXCEPT ![t] = @ + 1]
    /\ UNCHANGED <<environ, child, loopHolder>>

\* await asyncio.create_subprocess_exec/_shell: the child starts with env_vars
\* (or inherits os.environ when env is None), or the launch raises an OSError
Spawn(t) ==
    /\ UNCHANGED notRunnerVars
    /\ loopHolder = NoTask
    /\ pc[t] = "spawning"
    /\ \E o \in LaunchOutcomes :
        IF inv[t].hasEnv /\ \E k \in EnvKeys : envVars[t][k] = PyNone
          THEN \* an env value that is None: TypeError, which the except clause lets pass
               /\ result' = [result EXCEPT ![t] = Raised("TypeError")]
               /\ fault' = [fault EXCEPT ![t] = "badenv"]
               /\ pc' = [pc EXCEPT ![t] = "raised"]
               /\ child' = child
        ELSE IF o = "ok"
          THEN /\ child' = [child EXCEPT ![t] =
                      [launched |-> TRUE, running |-> TRUE,
                       env |-> IF inv[t].hasEnv THEN envVars[t] ELSE environ]]
               /\ pc' = [pc EXCEPT ![t] = "waiting"]
               /\ UNCHANGED <<result, fault>>
          ELSE /\ result' = [result EXCEPT ![t] = CompletedProcess(1, "", Diagnostic(o))]
               /\ fault' = [fault EXCEPT ![t] = o]
               /\ pc' = [pc EXCEPT ![t] = "done"]
               /\ child' = child
    /\ UNCHANGED <<environ, inv, envBefore, envVars, loopHolder, calls>>

\* await process.communicate() resumes: the child has exited
Communicate(t) ==
    /\ UNCHANGED notRunnerVars
    /\ loopHolder = NoTask
    /\ pc[t] = "waiting"
    /\ \E rc \in ExitCodes :
        result' = [result EXCEPT ![t] =
                      CompletedProcess(rc, "json", IF rc \in {0, 3} THEN "" ELSE "boom")]
    /\ child' = [child EXCEPT ![t].running = FALSE]
    /\ pc' = [pc EXCEPT ![t] = "done"]
    /\ UNCHANGED <<environ, inv, envBefore, envVars, fault, loopHolder, calls>>

\* run_orion of orion-mcp.py up to subprocess.run: the four os.environ
\* assignments, then the launch.  The call is synchronous: it keeps the
\* calling thread until the child exits.
LegacyCall(t) ==
    /\ UNCHANGED notRunnerVars
    /\ loopHolder = NoTask
    /\ pc[t] = "idle"
    /\ calls[t] < MaxCalls
    /\ \E i \in LegacyInvs, o \in LaunchOutcomes :
        /\ inv' = [inv EXCEPT ![t] = i]
        /\ environ' = AssignEnviron(environ, i.data_source, i.version)
        /\ IF o = "ok"
             THEN /\ child' = [child EXCEPT ![t] =
                         [launched |-> TRUE, running |-> TRUE, env |-> environ']]
                  /\ pc' = [pc EXCEPT ![t] = "blocked"]
                  /\ loopHolder' = t
                  /\ UNCHANGED <<result, fault>>
             ELSE \* except FileNotFoundError / except Exception: return a message
                  /\ result' = [result EXCEPT ![t] = BareString(Diagnostic(o))]
                  /\ fault' = [fault EXCEPT ![t] = o]
                  /\ pc' = [pc EXCEPT ![t] = "done"]
                  /\ UNCHANGED <<child, loopHolder>>
    /\ envBefore' = [envBefore EXCEPT ![t] = environ]
    /\ calls' = [calls EXCEPT ![t] = @ + 1]
    /\ UNCHANGED envVars

\* subprocess.run returns: the child has exited and the thread is free again
LegacyChildExit(t) ==
    /\ UNCHANGED notRunnerVars
    /\ loopHolder = t
    /\ pc[t] = "blocked"
    /\ \E rc \in ExitCodes :
        result' = [result EXCEPT ![t] =
                      CompletedProcess(rc, "json", IF rc \in {0, 3} THEN "" ELSE "boom")]
    /\ child' = [child EXCEPT ![t].running = FALSE]
    /\ loopHolder' = NoTask
    /\ pc' = [pc EXCEPT ![t] = "done"]
    /\ UNCHANGED <<environ, inv, envBefore, envVars, fault, calls>>

\* the caller has consumed the result; the task is free for its next invocation
Return(t) ==
    /\ UNCHANGED notRunnerVars
    /\ loopHolder = NoTask
    /\ pc[t] \in {"done", "raised"}
    /\ pc' = [pc EXCEPT ![t] = "idle"]
    /\ inv' = [inv EXCEPT ![t] = NoInv]
    /\ envBefore' = [envBefore EXCEPT ![t] = environ]
    /\ envVars' = [envVars EXCEPT ![t] = [k \in EnvKeys |-> Unset]]
    /\ child' = [child EXCEPT ![t] = NoChild]
    /\ fault' = [fault EXCEPT ![t] = "none"]
    /\ result' = [result EXCEPT ![t] = NoResult]
    /\ UNCHANGED <<environ, loopHolder, calls>>

\* any step of task t
TaskStep(t) ==
    \/ CallRunOrion(t)
    \/ CallRunCommand(t)
    \/ Spawn(t)
    \/ Communicate(t)
    \/ LegacyCall(t)
    \/ LegacyChildExit(t)
    \/ Return(t)

-----------------------------------------------------------------------------
(* The Output Normalizer: extract_json_block and summarize_result.          *)
(*                                                                         *)
(* stdout is a sequence of lines.  A line is a log line, a delimiter line  *)
(* (its stripped text starts with "="), a blank line, the line "No UUID    *)
(* present for given metadata", a line of text that is not JSON, or a      *)
(* JSON document, which carries the array of run records it parses to.     *)
(* A Python dict is the sequence of its entries in insertion order.        *)

NoIsolate == "<None>"

Null == [null |-> TRUE, n |-> 0]

Num(n) == [null |-> FALSE, n |-> n]

Line(kind) == [kind |-> kind, runs |-> <<>>]

JsonLine(runs) == [kind |-> "json", runs |-> runs]

\* summary["timestamp"]: a scalar;  summary[metric]: {"value": [...]}
TimestampEntry(ts) == [key |-> "timestamp", scalar |-> TRUE, ts |-> ts, value |-> <<>>]

MetricEntry(name, vals) == [key |-> name, scalar |-> FALSE, ts |-> 0, value |-> vals]

\* key in summary
HasKey(entries, key) == \E i \in DOMAIN entries : entries[i].key = key

\* summary[key]
Lookup(entries, key) == entries[CHOOSE i \in DOMAIN entries : entries[i].key = key]

\* summary[e.key] = e: a new key goes last, an old key keeps its place
SetItem(entries, e) ==
    IF HasKey(entries, e.key)
      THEN [i \in DOMAIN entries |-> IF entries[i].key = e.key THEN e ELSE entries[i]]
      ELSE Append(entries, e)

\* the dict or the str summarize_result returns
DictResult(entries) == [kind |-> "dict", entries |-> entries, text |-> ""]

ErrorText(msg) == [kind |-> "str", entries |-> <<>>, text |-> msg]

NoSummary == [kind |-> "none", entries |-> <<>>, text |-> ""]

\* lines[i] for the first i whose stripped line starts with "=", else 0
RECURSIVE DelimiterIndex(_, _)
DelimiterIndex(lines, i) ==
    IF i > Len(lines) THEN 0
    ELSE IF lines[i].kind = "delim" THEN i
    ELSE DelimiterIndex(lines, i + 1)

\* log_text.strip().splitlines(): blank lines at both ends are stripped away
RECURSIVE StripLines(_)
StripLines(lines) ==
    IF lines = <<>> THEN <<>>
    ELSE IF lines[1].kind = "blank" THEN StripLines(Tail(lines))
    ELSE IF lines[Len(lines)].kind = "blank" THEN StripLines(SubSeq(lines, 1, Len(lines) - 1))
    ELSE lines

\* json.loads(text): text is one JSON document, white space around it allowed
JsonLoads(lines) ==
    LET body == SelectSeq(lines, LAMBDA l : l.kind # "blank")
    IN  IF Len(body) = 1 /\ body[1].kind = "json"
          THEN [ok |-> TRUE, runs |-> body[1].runs, exc |-> ""]
          ELSE [ok |-> FALSE, runs |-> <<>>, exc |-> "JSONDecodeError"]

\* extract_json_block.  Each of its four failure branches calls sys.exit(1),
\* and utils.py never imports sys: the call raises NameError.
ExtractJsonBlock(stdout) ==
    LET lines == StripLines(stdout)
        start == DelimiterIndex(lines, 1)
        text  == StripLines(SubSeq(lines, start + 1, Len(lines)))
        nameError == [ok |-> FALSE, runs |-> <<>>, exc |-> "name 'sys' is not defined"]
    IN  IF \E i \in DOMAIN lines : lines[i].kind = "nouuid" THEN nameError
        ELSE IF start = 0 THEN nameError
        ELSE IF text = <<>> THEN nameError
        ELSE IF JsonLoads(text).ok THEN JsonLoads(text)
        ELSE nameError

\* the mutant: no metric is ever skipped
SkipsNothing(isolate, metric_name) == FALSE

\* if isolate is not None: if isolate != metric_name: continue
Skips(isolate, metric_name) == isolate # NoIsolate /\ isolate # metric_name

\* the mutant: an absent (null) value is dropped instead of appended
AppendValueDropNull(vals, v) == IF v.null THEN vals ELSE Append(vals, v)

\* summary[metric_name]["value"].append(metric_data["value"])
AppendValue(vals, v) == Append(vals, v)

\* One pass of the inner loop body for metric m of run.  st.err is the
\* exception raised so far, "" for none.
MetricStep(st, run, m, isolate) ==
    IF st.err # "" THEN st
    ELSE IF ~run.hasTimestamp THEN [st EXCEPT !.err = "'timestamp'"]
    ELSE
      LET stamped == SetItem(st.entries, TimestampEntry(run.timestamp))
      IN  IF Skips(isolate, m.name) THEN [st EXCEPT !.entries = stamped]
          ELSE IF ~HasKey(stamped, m.name)
            THEN IF ~m.hasValue THEN [st EXCEPT !.err = "'value'"]
                 ELSE [st EXCEPT !.entries =
                          Append(stamped, MetricEntry(m.name, AppendValue(<<>>, m.value)))]
          ELSE IF Lookup(stamped, m.name).scalar
            THEN \* summary["timestamp"]["value"]: the timestamp is not a mapping
                 [st EXCEPT !.err = "TypeError"]
          ELSE IF ~m.hasValue THEN [st EXCEPT !.err = "'value'"]
          ELSE [st EXCEPT !.entries =
                   SetItem(stamped, MetricEntry(m.name,
                                AppendValue(Lookup(stamped, m.name).value, m.value)))]

RECURSIVE MetricLoop(_, _, _, _)
MetricLoop(st, run, k, isolate) ==
    IF k > Len(run.metrics) THEN st
    ELSE MetricLoop(MetricStep(st, run, run.metrics[k], isolate), run, k + 1, isolate)

\* for run in extracted_json: for metric_name, metric_data in run["metrics"].items()
RECURSIVE RunLoop(_, _, _, _)
RunLoop(st, runs, i, isolate) ==
    IF i > Len(runs) \/ st.err # "" THEN st
    ELSE IF ~runs[i].hasMetrics THEN [st EXCEPT !.err = "'metrics'"]
    ELSE RunLoop(MetricLoop(st, runs[i], 1, isolate), runs, i + 1, isolate)

\* the body of summarize_result once stdout is parsed (or has failed to)
SummarizeParsed(parsed, isolate) ==
    IF ~parsed.ok THEN ErrorText(parsed.exc)
    ELSE IF Len(parsed.runs) = 0 THEN DictResult(<<>>)
    ELSE LET st == RunLoop([err |-> "", entries |-> <<>>], parsed.runs, 1, isolate)
         IN  IF st.err # "" THEN ErrorText(st.err) ELSE DictResult(st.entries)

\* summarize_result of utils.py
SummarizeResult(stdout, isolate) == SummarizeParsed(ExtractJsonBlock(stdout), isolate)

\* summarize_result of orion-mcp.py: json.loads(result.stdout), no isolate
LegacySummarizeResult(stdout) == SummarizeParsed(JsonLoads(stdout), NoIsolate)

-----------------------------------------------------------------------------
(* Inputs of the Output Normalizer. *)

\* the metric names of a run, in the order the JSON object lists them
Orderings(names) ==
    {s \in UNION {[1..n -> names] : n \in 0..Cardinality(names)} :
        \A i, j \in DOMAIN s : i # j => s[i] # s[j]}

NameCode(name) == CASE name = "cpu" -> 1 [] name = "lat" -> 2 [] OTHER -> 3

\* the metrics of run i: every metric has a value, a number that names the
\* run and the metric, or null
MetricSeqs(names, i) ==
    UNION {{[k \in DOMAIN s |->
                [name |-> s[k], hasValue |-> TRUE,
                 value |-> IF nulls[k] THEN Null ELSE Num(10 * i + NameCode(s[k]))]] :
            nulls \in [DOMAIN s -> BOOLEAN]} : s \in Orderings(names)}

\* a valid run record: {"timestamp": ..., "metrics": {...}}
RunsAt(names, i) ==
    {[hasTimestamp |-> TRUE, timestamp |-> 100 * i, hasMetrics |-> TRUE, metrics |-> ms] :
        ms \in MetricSeqs(names, i)}

RECURSIVE ArraysOfLen(_, _)
ArraysOfLen(names, n) ==
    IF n = 0 THEN {<<>>}
    ELSE {Append(a, r) : a \in ArraysOfLen(names, n - 1), r \in RunsAt(names, n)}

\* the valid run-record arrays of up to n runs
RECURSIVE ArraysUpTo(_, _)
ArraysUpTo(names, n) ==
    IF n = 0 THEN ArraysOfLen(names, 0)
    ELSE ArraysUpTo(names, n - 1) \cup ArraysOfLen(names, n)

\* the valid run-record arrays of up to MaxRuns runs
ValidArrays(names) == ArraysUpTo(names, MaxRuns)

\* a valid array with one expected key taken out of run i: "timestamp"
\* (k = -1), "metrics" (k = 0) or the "value" of its k-th metric; the array
\* itself where it has no such key
Defective(a, i, k) ==
    IF i \notin DOMAIN a THEN a
    ELSE IF k = -1 THEN [a EXCEPT ![i].hasTimestamp = FALSE]
    ELSE IF k = 0 THEN [a EXCEPT ![i].hasMetrics = FALSE]
    ELSE IF k \in DOMAIN a[i].metrics THEN [a EXCEPT ![i].metrics[k].hasValue = FALSE]
    ELSE a

RunArrays(names) ==
    {Defective(a, i, k) : a \in ValidArrays(names), i \in 0..MaxRuns,
                          k \in -1..Cardinality(names)}

\* an array is valid when no run lacks a key
IsValidArray(a) ==
    \A i \in DOMAIN a :
        /\ a[i].hasTimestamp /\ a[i].hasMetrics
        /\ \A k \in DOMAIN a[i].metrics : a[i].metrics[k].hasValue

SampleArray == CHOOSE a \in ArraysOfLen(MetricNames, 1) : Len(a[1].metrics) = 1

\* stdout as orion prints it: log lines, a delimiter line, the JSON document
Wrapped(a) == <<Line("log"), Line("delim"), JsonLine(a)>>

\* stdout that holds no usable payload, and stdout that is the bare document
OtherStdouts ==
    { <<>>,
      <<Line("log")>>,
      <<Line("delim")>>,
      <<Line("delim"), Line("blank")>>,
      <<Line("log"), Line("delim"), Line("garbage")>>,
      <<Line("delim"), JsonLine(SampleArray), Line("log")>>,
      <<Line("nouuid"), Line("delim"), JsonLine(SampleArray)>>,
      <<Line("blank"), Line("delim"), Line("blank"), JsonLine(SampleArray), Line("blank")>>,
      <<JsonLine(SampleArray)>>,
      <<JsonLine(<<>>)>> }

Stdouts(names) == {Wrapped(a) : a \in RunArrays(names)} \cup OtherStdouts

SumIdle ==
    /\ sumStdout = <<>>
    /\ sumIsolate = NoIsolate
    /\ sumImpl = "none"
    /\ sumResult = NoSummary
    /\ sumPc = "idle"

SumInit ==
    /\ sumStdout \in Stdouts(MetricNames)
    /\ sumIsolate = NoIsolate
    /\ sumImpl = "none"
    /\ sumResult = NoSummary
    /\ sumPc = "ready"

\* metric names of which one is the reserved key of the summary
ReservedNames == {"cpu", "timestamp"}

\* valid arrays over these names, as orion prints them and as the bare
\* document the legacy summarize_result reads
ReservedStdouts ==
    {Wrapped(a) : a \in ValidArrays(ReservedNames)}
    \cup {<<JsonLine(a)>> : a \in ValidArrays(ReservedNames)}

SumInitReserved ==
    /\ sumStdout \in ReservedStdouts
    /\ sumIsolate = NoIsolate
    /\ sumImpl = "none"
    /\ sumResult = NoSummary
    /\ sumPc = "ready"

\* a caller runs summarize_result(result, isolate) of utils.py
Summarize ==
    /\ sumPc = "ready"
    /\ \E isolate \in MetricNames \cup {NoIsolate} :
        /\ sumIsolate' = isolate
        /\ sumResult' = SummarizeResult(sumStdout, isolate)
    /\ sumImpl' = "utils"
    /\ sumPc' = "done"
    /\ UNCHANGED sumStdout
    /\ UNCHANGED notSumVars

\* a caller runs summarize_result(result) of orion-mcp.py
LegacySummarize ==
    /\ sumPc = "ready"
    /\ sumResult' = LegacySummarizeResult(sumStdout)
    /\ sumImpl' = "legacy"
    /\ sumPc' = "done"
    /\ UNCHANGED <<sumStdout, sumIsolate>>
    /\ UNCHANGED notSumVars

-----------------------------------------------------------------------------
(* The Regression Extractor: _extract_regression_details.                   *)
(*                                                                         *)
(* percentage_change is a number of thousandths (15000 is 15.0).  A text   *)
(* made by ":.2f" is the pair of its whole part and its two decimals.      *)

NoneStr == "None"

\* f"{x:.2f}" of x >= 0 given in thousandths: the nearest hundredth.  (The
\* inputs hold no third decimal of 5, where the float's binary form decides.)
Format2f(x) ==
    LET h == (x + 5) \div 10
    IN  [whole |-> h \div 100, frac |-> h % 100]

\* the mutant: ">=" for ">": a change of zero is reported as an increase
DescribeMetricZeroIncreases(name, info) ==
    LET pct == IF info.hasPct THEN info.pct ELSE 0
    IN  IF pct >= 0 THEN <<[metric |-> name, change |-> "increased", by |-> Format2f(pct)]>>
        ELSE <<[metric |-> name, change |-> "decreased", by |-> Format2f(-pct)]>>

\* percentage_change = metric_info.get("percentage_change", 0) and the two
\* f-strings: the lines one metric adds to the list
DescribeMetric(name, info) ==
    LET pct == IF info.hasPct THEN info.pct ELSE 0
    IN  IF pct > 0
          THEN <<[metric |-> name, change |-> "increased", by |-> Format2f(pct)]>>
        ELSE IF pct < 0
          THEN <<[metric |-> name, change |-> "decreased", by |-> Format2f(-pct)]>>
        ELSE <<>>

\* for metric_name, metric_info in dat.get("metrics", {}).items()
RECURSIVE MetricDescriptions(_, _)
MetricDescriptions(metrics, k) ==
    IF k > Len(metrics) THEN <<>>
    ELSE DescribeMetric(metrics[k].name, metrics[k]) \o MetricDescriptions(metrics, k + 1)

\* dat.get("prs", []) or []
PrsOf(dat) == IF dat.hasPrs THEN dat.prs ELSE <<>>

\* the mutant: the PRs that left are listed after the PRs that came
PrsAddedAndRemoved(current_prs, prev_prs) ==
    SelectSeq(current_prs, LAMBDA p : \A j \in DOMAIN prev_prs : prev_prs[j] # p)
      \o SelectSeq(prev_prs, LAMBDA p : \A j \in DOMAIN current_prs : current_prs[j] # p)

\* [p for p in current_prs if p not in prev_prs]
PrsAdded(current_prs, prev_prs) ==
    SelectSeq(current_prs, LAMBDA p : \A j \in DOMAIN prev_prs : prev_prs[j] # p)

\* if not dat.get("is_changepoint"): continue
IsChangepoint(dat) == dat.isChangepoint = "true"

\* the dict appended to details for data[idx]
DetailOf(data, idx) ==
    LET dat == data[idx]
    IN  [uuid |-> dat.uuid,
         ocpVersion |-> dat.ocpVersion,
         previousOcpVersion |-> IF idx > 1 THEN data[idx - 1].ocpVersion ELSE NoneStr,
         prs_added |-> PrsAdded(PrsOf(dat), IF idx > 1 THEN PrsOf(data[idx - 1]) ELSE <<>>),
         metrics |-> MetricDescriptions(IF dat.hasMetrics THEN dat.metrics ELSE <<>>, 1)]

\* for idx, dat in enumerate(data)
RECURSIVE DetailsLoop(_, _)
DetailsLoop(data, idx) ==
    IF idx > Len(data) THEN <<>>
    ELSE IF ~IsChangepoint(data[idx]) THEN DetailsLoop(data, idx + 1)
    ELSE <<DetailOf(data, idx)>> \o DetailsLoop(data, idx + 1)

\* _extract_regression_details: json.loads(stdout) raises on text that is
\* not one JSON document, and nothing here catches it
ExtractRegressionDetails(stdout) ==
    LET parsed == JsonLoads(stdout)
    IN  IF parsed.ok
          THEN [ok |-> TRUE, exc |-> "", details |-> DetailsLoop(parsed.runs, 1)]
          ELSE [ok |-> FALSE, exc |-> parsed.exc, details |-> <<>>]

-----------------------------------------------------------------------------
(* Inputs of the Regression Extractor. *)

\* percentage changes: -12.346, 0, 0.004 and 12.345 (a float that lies just
\* above its decimal, so that ":.2f" shows 12.35)
PctValues == {-12346, 0, 4, 12345}

\* the metrics of a changepoint record: names in any order, each with a
\* percentage_change
PctSeqs(names) ==
    UNION {{[k \in DOMAIN s |-> [name |-> s[k], hasPct |-> TRUE, pct |-> pcts[k]]] :
            pcts \in [DOMAIN s -> PctValues]} : s \in Orderings(names)}

Record(i, cp, hasMetrics, metrics, hasPrs, prs) ==
    [isChangepoint |-> cp,
     uuid |-> IF i = 1 THEN "uuid-1" ELSE IF i = 2 THEN "uuid-2" ELSE "uuid-3",
     ocpVersion |-> IF i = 1 THEN "4.18" ELSE IF i = 2 THEN "4.19" ELSE "4.20",
     hasPrs |-> hasPrs, prs |-> prs,
     hasMetrics |-> hasMetrics, metrics |-> metrics]

\* the records that can stand at index i: changepoints with every choice of
\* metrics (or none, or a metric without percentage_change), and records
\* that are no changepoint although their metric changed
RecordsAt(i) ==
    {Record(i, "true", TRUE, ms, FALSE, <<>>) : ms \in PctSeqs({"cpu"})}
    \cup {Record(i, "true", TRUE, ms, FALSE, <<>>) :
            ms \in {m \in PctSeqs(MetricNames) : Len(m) = 2 /\ m[1].pct # m[2].pct}}
    \cup {Record(i, "true", FALSE, <<>>, FALSE, <<>>),
          Record(i, "true", TRUE, <<[name |-> "cpu", hasPct |-> FALSE, pct |-> 0]>>,
                 FALSE, <<>>)}
    \cup {Record(i, cp, TRUE, <<[name |-> "cpu", hasPct |-> TRUE, pct |-> 15000]>>,
                 FALSE, <<>>) : cp \in {"false", "missing"}}

RECURSIVE RecordArraysOfLen(_)
RecordArraysOfLen(n) ==
    IF n = 0 THEN {<<>>}
    ELSE {Append(a, r) : a \in RecordArraysOfLen(n - 1), r \in RecordsAt(n)}

\* the arrays of at most n records
RECURSIVE RecordArraysUpTo(_)
RecordArraysUpTo(n) ==
    IF n = 0 THEN RecordArraysOfLen(0) ELSE RecordArraysUpTo(n - 1) \cup RecordArraysOfLen(n)

RecordArrays == RecordArraysUpTo(MaxRecords)

ExStdouts ==
    {<<JsonLine(a)>> : a \in RecordArrays}
    \cup { <<>>, <<Line("garbage")>>, <<Line("log"), Line("delim"), JsonLine(<<>>)>> }

\* the "prs" lists of a record
PrLists == { <<>>, <<"pr1">>, <<"pr1", "pr2">>, <<"pr2", "pr1">>, <<"pr3", "pr1", "pr3">> }

\* records that differ in their prs (a list, or the key absent), in their
\* version label (present or absent) and in their metrics (one metric or an
\* empty mapping), changepoint or not
PrRecordsAt(i) ==
    LET oneMetric == <<[name |-> "cpu", hasPct |-> TRUE, pct |-> 12345]>>
        shapes == {Record(i, cp, TRUE, oneMetric, TRUE, prs) :
                     cp \in {"true", "false"}, prs \in PrLists}
                  \cup {Record(i, cp, TRUE, ms, FALSE, <<>>) :
                          cp \in {"true", "false"}, ms \in {<<>>, oneMetric}}
    IN  shapes \cup {[r EXCEPT !.ocpVersion = NoneStr] : r \in shapes}

RECURSIVE PrArraysOfLen(_)
PrArraysOfLen(n) ==
    IF n = 0 THEN {<<>>}
    ELSE {Append(a, r) : a \in PrArraysOfLen(n - 1), r \in PrRecordsAt(n)}

RECURSIVE PrArraysUpTo(_)
PrArraysUpTo(n) ==
    IF n = 0 THEN PrArraysOfLen(0) ELSE PrArraysUpTo(n - 1) \cup PrArraysOfLen(n)

PrStdouts == {<<JsonLine(a)>> : a \in PrArraysUpTo(MaxRecords)}

NoDetails == [ok |-> FALSE, exc |-> "", details |-> <<>>]

ExIdle == exStdout = <<>> /\ exOut = NoDetails /\ exPc = "idle"

ExInit == exStdout \in ExStdouts /\ exOut = NoDetails /\ exPc = "ready"

ExInitPrs == exStdout \in PrStdouts /\ exOut = NoDetails /\ exPc = "ready"

\* a caller runs _extract_regression_details(stdout)
Extract ==
    /\ exPc = "ready"
    /\ exOut' = ExtractRegressionDetails(exStdout)
    /\ exPc' = "done"
    /\ UNCHANGED exStdout
    /\ UNCHANGED notExVars

-----------------------------------------------------------------------------
(* The regression tools: _run_regression_checks and its two callers, and   *)
(* has_openshift_regressed of orion-mcp.py.                                 *)

ORION_CONFIGS_PATH == "/orion/examples/"

\* the configs of has_openshift_regressed and of has_networking_regressed
ConfigsOf(tool) ==
    IF tool = "has_networking_regressed"
      THEN <<"small-scale-udn-l3.yaml", "trt-external-payload-node-density-cni.yaml">>
      ELSE <<"trt-external-payload-cluster-density.yaml",
             "trt-external-payload-node-density.yaml",
             "trt-external-payload-node-density-cni.yaml",
             "trt-external-payload-crd-scale.yaml">>

\* what a tool call ends with
NoOutcome == [kind |-> "none", blocks |-> <<>>, text |-> ""]

\* "\n\n".join(changepoints)
Report(blocks) == [kind |-> "report", blocks |-> blocks, text |-> ""]

TextOutcome(text) == [kind |-> "text", blocks |-> <<>>, text |-> text]

BoolOutcome(b) == [kind |-> "bool", blocks |-> <<>>, text |-> IF b THEN "True" ELSE "False"]

RaisedOutcome(exc) == [kind |-> "exception", blocks |-> <<>>, text |-> exc]

\* "\n".join(header_lines) for one detail of one configuration
ReportBlock(full_config_path, det) ==
    [config |-> full_config_path,
     uuid |-> det.uuid,
     ocpVersion |-> det.ocpVersion,
     previousOcpVersion |-> det.previousOcpVersion,
     prs |-> IF det.prs_added # <<>> THEN det.prs_added ELSE <<NoneStr>>,
     affected |-> det.metrics # <<>>,
     metrics |-> det.metrics]

\* if result.returncode not in (0, 3)
ReadsDetails(returncode) == returncode \notin {0, 3}

\* the blocks one result adds to changepoints; ok is false when
\* _extract_regression_details raised
BlocksOf(full_config_path, res) ==
    IF ~ReadsDetails(res.returncode) THEN [ok |-> TRUE, exc |-> "", blocks |-> <<>>]
    ELSE LET ex == ExtractRegressionDetails(res.stdout)
         IN  [ok |-> ex.ok, exc |-> ex.exc,
              blocks |-> [k \in DOMAIN ex.details |->
                            ReportBlock(full_config_path, ex.details[k])]]

\* the stdouts orion is given here: nothing, an empty array, one record that
\* is no changepoint, and that record followed by a changepoint whose cpu
\* rose by 15 percent
QuietRecord == Record(1, "false", TRUE, <<[name |-> "cpu", hasPct |-> TRUE, pct |-> 0]>>,
                      FALSE, <<>>)

ChangepointRecord == Record(2, "true", TRUE,
                            <<[name |-> "cpu", hasPct |-> TRUE, pct |-> 15000]>>, FALSE, <<>>)

FlowStdouts == { <<>>, <<JsonLine(<<>>)>>, <<JsonLine(<<QuietRecord>>)>>,
                 <<JsonLine(<<QuietRecord, ChangepointRecord>>)>> }

FlowResults ==
    {CompletedProcess(rc, out, IF rc \in {0, 3} THEN "" ELSE "boom") :
        rc \in ExitCodes, out \in FlowStdouts}

RegIdle ==
    /\ regTool = "none"
    /\ regConfigs = <<>>
    /\ regIdx = 0
    /\ regResults = <<>>
    /\ regBlocks = <<>>
    /\ regOut = NoOutcome
    /\ regPc = "idle"

\* has_openshift_regressed or has_networking_regressed is called and runs to
\* the first "await run_orion(...)" of _run_regression_checks
CallRegressionTool ==
    /\ regPc = "idle"
    /\ \E tool \in {"has_openshift_regressed", "has_networking_regressed"} :
         /\ regTool' = tool
         /\ regConfigs' = [k \in DOMAIN ConfigsOf(tool) |->
                             ORION_CONFIGS_PATH \o ConfigsOf(tool)[k]]
    /\ regIdx' = 1
    /\ regPc' = "awaiting"
    /\ UNCHANGED <<regResults, regBlocks, regOut>>
    /\ UNCHANGED notRegVars

\* run_orion hands its result to the loop, which runs to the next await, to
\* the return, or to the exception that leaves it
ResumeRegressionChecks ==
    /\ regPc = "awaiting"
    /\ regTool \in {"has_openshift_regressed", "has_networking_regressed"}
    /\ \E res \in FlowResults :
         LET b == BlocksOf(regConfigs[regIdx], res)
             changepoints == regBlocks \o b.blocks
         IN  /\ regResults' = Append(regResults, res)
             /\ IF ~b.ok
                  THEN /\ regPc' = "raised"
                       /\ regOut' = RaisedOutcome(b.exc)
                       /\ UNCHANGED <<regBlocks, regIdx>>
                ELSE IF regIdx < Len(regConfigs)
                  THEN /\ regPc' = "awaiting"
                       /\ regIdx' = regIdx + 1
                       /\ regBlocks' = changepoints
                       /\ UNCHANGED regOut
                ELSE /\ regPc' = "returned"
                     /\ regBlocks' = changepoints
                     /\ regOut' = IF changepoints # <<>> THEN Report(changepoints)
                                  ELSE TextOutcome("No changepoints found")
                     /\ UNCHANGED regIdx
    /\ UNCHANGED <<regTool, regConfigs>>
    /\ UNCHANGED notRegVars

\* orion_configs of has_openshift_regressed of orion-mcp.py
LegacyConfigs ==
    [k \in DOMAIN ConfigsOf("has_openshift_regressed") |->
       ORION_CONFIGS_PATH \o ConfigsOf("has_openshift_regressed")[k]]

\* what run_orion of orion-mcp.py hands back: a CompletedProcess, or a str
LegacyResults ==
    {CompletedProcess(rc, <<>>, "") : rc \in ExitCodes}
    \cup {BareString("Orion command not found")}

\* the index of the result that ends the loop of has_openshift_regressed of
\* orion-mcp.py: the first one that is a str or has a nonzero returncode
RECURSIVE LegacyStop(_, _)
LegacyStop(results, k) ==
    IF k > Len(results) THEN k
    ELSE IF results[k].shape = "str" \/ results[k].returncode # 0 THEN k
    ELSE LegacyStop(results, k + 1)

\* has_openshift_regressed of orion-mcp.py: synchronous, so the whole loop is
\* one step; result.returncode of a str raises AttributeError
LegacyHasOpenshiftRegressed ==
    /\ regPc = "idle"
    /\ regTool' = "legacy_has_openshift_regressed"
    /\ regConfigs' = LegacyConfigs
    /\ \E results \in [DOMAIN LegacyConfigs -> LegacyResults] :
         LET stop == LegacyStop(results, 1)
             last == IF stop > Len(results) THEN Len(results) ELSE stop
         IN  /\ regResults' = SubSeq(results, 1, last)
             /\ regIdx' = last
             /\ IF stop > Len(results)
                  THEN regPc' = "returned" /\ regOut' = BoolOutcome(FALSE)
                ELSE IF results[stop].shape = "str"
                  THEN regPc' = "raised" /\ regOut' = RaisedOutcome("AttributeError")
                ELSE regPc' = "returned" /\ regOut' = BoolOutcome(TRUE)
    /\ UNCHANGED regBlocks
    /\ UNCHANGED notRegVars

-----------------------------------------------------------------------------
(* The Tabular Encoder and the single-series renderer:                     *)
(* convert_results_to_csv and csv_to_graph.                                 *)
(*                                                                         *)
(* A text is the sequence of its pieces: a comma, a newline, a blank, a    *)
(* number as str() prints it, or a run of other characters.                *)

Chr(s) == [kind |-> "chr", s |-> s, n |-> 0]

NumTok(n) == [kind |-> "num", s |-> "", n |-> n]

Comma == Chr(",")

Newline == Chr("\n")

Blank == Chr(" ")

\* the text of a configuration or metric name
TextOf(name) ==
    CASE name = "cfg,C" -> <<Chr("cfg"), Comma, Chr("C")>>
      [] name = " cfgS" -> <<Blank, Chr("cfgS")>>
      [] name = "p\n99" -> <<Chr("p"), Newline, Chr("99")>>
      [] name = "p,99" -> <<Chr("p"), Comma, Chr("99")>>
      [] OTHER -> <<Chr(name)>>

\* str(v) of a value of a summary: a number, or None
Str(v) == IF v.null THEN <<Chr("None")>> ELSE <<NumTok(v.n)>>

\* sep.join(texts)
RECURSIVE Join(_, _)
Join(texts, sep) ==
    IF texts = <<>> THEN <<>>
    ELSE IF Len(texts) = 1 THEN texts[1]
    ELSE texts[1] \o <<sep>> \o Join(Tail(texts), sep)

\* text.split(sep): "" splits into one empty part
RECURSIVE Split(_, _)
Split(text, sep) ==
    IF \A i \in DOMAIN text : text[i] # sep THEN <<text>>
    ELSE LET i == CHOOSE j \in DOMAIN text :
                    text[j] = sep /\ \A k \in 1..(j - 1) : text[k] # sep
         IN  <<SubSeq(text, 1, i - 1)>> \o Split(SubSeq(text, i + 1, Len(text)), sep)

IsWhitespace(tok) == tok = Blank \/ tok = Newline

\* text.strip()
RECURSIVE Strip(_)
Strip(text) ==
    IF text = <<>> THEN text
    ELSE IF IsWhitespace(text[1]) THEN Strip(Tail(text))
    ELSE IF IsWhitespace(text[Len(text)]) THEN Strip(SubSeq(text, 1, Len(text) - 1))
    ELSE text

\* the mutant: the reserved key gets a line like any metric
IsReservedKeyNever(metric) == FALSE

\* if metric == "timestamp": continue
IsReservedKey(metric) == metric = "timestamp"

\* f"{config},{metric},{','.join(map(str, values['value']))}"
CsvLine(config, entry) ==
    TextOf(config) \o <<Comma>> \o TextOf(entry.key) \o <<Comma>>
      \o Join([k \in DOMAIN entry.value |-> Str(entry.value[k])], Comma)

\* for metric, values in data.items(): the lines of one configuration
RECURSIVE CsvLinesOf(_, _, _)
CsvLinesOf(config, entries, k) ==
    IF k > Len(entries) THEN <<>>
    ELSE IF IsReservedKey(entries[k].key) THEN CsvLinesOf(config, entries, k + 1)
    ELSE <<CsvLine(config, entries[k])>> \o CsvLinesOf(config, entries, k + 1)

\* for result in results: for config, data in result.items().  A result is
\* its one item; data is what summarize_result returned.  "if not data"
\* passes over {} and ""; data.items() of any other str raises.
RECURSIVE CsvLoop(_, _)
CsvLoop(results, i) ==
    IF i > Len(results) THEN [ok |-> TRUE, exc |-> "", lines |-> <<>>]
    ELSE LET data == results[i].data
         IN  IF data.kind = "str" /\ data.text # ""
               THEN [ok |-> FALSE, exc |-> "AttributeError", lines |-> <<>>]
             ELSE LET rest == CsvLoop(results, i + 1)
                  IN  IF ~rest.ok THEN rest
                      ELSE [rest EXCEPT !.lines =
                              CsvLinesOf(results[i].config, data.entries, 1) \o @]

\* convert_results_to_csv
ConvertResultsToCsv(results) ==
    LET r == CsvLoop(results, 1)
    IN  [ok |-> r.ok, exc |-> r.exc, text |-> Join(r.lines, Newline)]

\* float(val_str) if val_str.lower() != 'none' else None, with ValueError
\* turned into None: the number of a part, or Null
FloatOrNone(part) ==
    IF Len(part) = 1 /\ part[1].kind = "num" THEN Num(part[1].n) ELSE Null

\* the mutant: an absent value is kept in the list
NumericValuesKeepNone(raw_values) == [k \in DOMAIN raw_values |-> FloatOrNone(raw_values[k])]

\* numerical_values of a line: its parts from the third on, as numbers,
\* without the None ones
NumericValues(raw_values) ==
    SelectSeq([k \in DOMAIN raw_values |-> FloatOrNone(raw_values[k])], LAMBDA v : ~v.null)

\* parsed_metrics_data[key] = numerical_values: a new key goes last, an old
\* key keeps its place
SetGroup(groups, g) ==
    IF \E i \in DOMAIN groups : groups[i].file_path = g.file_path /\ groups[i].metric_name = g.metric_name
      THEN [i \in DOMAIN groups |->
              IF groups[i].file_path = g.file_path /\ groups[i].metric_name = g.metric_name
                THEN g ELSE groups[i]]
      ELSE Append(groups, g)

\* the loop over the lines of csv_to_graph
RECURSIVE ParseLines(_, _, _)
ParseLines(lines, k, groups) ==
    IF k > Len(lines) THEN groups
    ELSE LET parts == Split(Strip(lines[k]), Comma)
             values == NumericValues(SubSeq(parts, 3, Len(parts)))
         IN  IF Strip(lines[k]) = <<>> \/ Len(parts) < 3 \/ values = <<>>
               THEN ParseLines(lines, k + 1, groups)
             ELSE ParseLines(lines, k + 1,
                    SetGroup(groups, [file_path |-> parts[1], metric_name |-> parts[2],
                                      values |-> values]))

\* parsed_metrics_data of csv_to_graph
ParsedMetricsData(csv_data) == ParseLines(Split(Strip(csv_data), Newline), 1, <<>>)

\* what csv_to_graph hands back: a list with one image per group, or None
ImageList(groups) == [kind |-> "list", imgs |-> groups]

NoneValue == [kind |-> "None", imgs |-> <<>>]

\* csv_to_graph of utils.py: "return []" when nothing was parsed
CsvToGraph(csv_data) == ImageList(ParsedMetricsData(csv_data))

\* csv_to_graph of orion-mcp.py: a bare "return" when nothing was parsed
LegacyCsvToGraph(csv_data) ==
    IF ParsedMetricsData(csv_data) = <<>> THEN NoneValue
    ELSE ImageList(ParsedMetricsData(csv_data))

-----------------------------------------------------------------------------
(* Inputs of the Tabular Encoder. *)

ConfigNames == {"cfgA", "cfgB", "cfg,C", " cfgS"}

\* the summaries of a batch: empty, the timestamp alone, numbers, None
\* values, an empty list, and metric names that hold a comma or a newline
BatchSummaries ==
    { <<>>,
      <<TimestampEntry(100)>>,
      <<TimestampEntry(100), MetricEntry("lat", <<Num(1), Num(2)>>)>>,
      <<TimestampEntry(100), MetricEntry("lat", <<Null>>)>>,
      <<TimestampEntry(200), MetricEntry("cpu", <<Null, Num(3), Null>>),
        MetricEntry("lat", <<Num(4)>>)>>,
      <<TimestampEntry(200), MetricEntry("lat", <<>>)>>,
      <<TimestampEntry(100), MetricEntry("p,99", <<Num(5)>>)>>,
      <<TimestampEntry(100), MetricEntry("p\n99", <<Num(6)>>)>> }

\* one result per configuration and summary, and one whose summary is the
\* str of a failed summarize_result
BatchResults ==
    {[config |-> c, data |-> DictResult(e)] : c \in ConfigNames, e \in BatchSummaries}
    \cup {[config |-> "cfgA", data |-> ErrorText("Error : 'metrics'")]}

\* the batches of at most n results
RECURSIVE BatchesUpTo(_)
BatchesUpTo(n) ==
    IF n = 0 THEN {<<>>} ELSE BatchesUpTo(n - 1) \cup [1..n -> BatchResults]

Batches == BatchesUpTo(MaxBatch)

NoImages == [kind |-> "none", imgs |-> <<>>]

CsvIdle == csvBatch = <<>> /\ csvText = <<>> /\ csvOut = NoImages /\ csvPc = "idle"

CsvInit == csvBatch \in Batches /\ csvText = <<>> /\ csvOut = NoImages /\ csvPc = "ready"

\* a caller runs convert_results_to_csv(results)
Encode ==
    /\ csvPc = "ready"
    /\ LET r == ConvertResultsToCsv(csvBatch)
       IN  /\ csvText' = r.text
           /\ csvPc' = IF r.ok THEN "encoded" ELSE "raised"
    /\ UNCHANGED <<csvBatch, csvOut>>
    /\ UNCHANGED notCsvVars

\* the caller hands the text to csv_to_graph of utils.py
Render ==
    /\ csvPc = "encoded"
    /\ csvOut' = CsvToGraph(csvText)
    /\ csvPc' = "rendered"
    /\ UNCHANGED <<csvBatch, csvText>>
    /\ UNCHANGED notCsvVars

\* the caller hands the text to csv_to_graph of orion-mcp.py
LegacyRender ==
    /\ csvPc = "encoded"
    /\ csvOut' = LegacyCsvToGraph(csvText)
    /\ csvPc' = "rendered"
    /\ UNCHANGED <<csvBatch, csvText>>
    /\ UNCHANGED notCsvVars

-----------------------------------------------------------------------------
(* openshift_detailed_performance of orion-mcp.py: the caller of the       *)
(* Tabular Encoder and of the single-series renderer.                       *)

\* the images a tool returns, one ImageContent per group
ImagesOutcome(imgs) == [kind |-> "images", blocks |-> imgs, text |-> ""]

\* one run whose only metric has no value, and one run with a number
AllNoneArray ==
    <<[hasTimestamp |-> TRUE, timestamp |-> 100, hasMetrics |-> TRUE,
       metrics |-> <<[name |-> "cpu", hasValue |-> TRUE, value |-> Null]>>]>>

NumberArray ==
    <<[hasTimestamp |-> TRUE, timestamp |-> 100, hasMetrics |-> TRUE,
       metrics |-> <<[name |-> "cpu", hasValue |-> TRUE, value |-> Num(11)]>>]>>

\* what run_orion of orion-mcp.py hands to the tool: exit code 0 or 1 with
\* an empty array, an array without numbers, an array with a number, or
\* text that is no JSON; or the str of a failed launch
DetailedResults ==
    {CompletedProcess(rc, out, IF rc = 0 THEN "" ELSE "boom") :
        rc \in {0, 1},
        out \in { <<JsonLine(<<>>)>>, <<JsonLine(AllNoneArray)>>,
                  <<JsonLine(NumberArray)>>, <<Line("garbage")>> }}
    \cup {BareString("Orion command not found")}

\* results.append({config: summarize_result(result)}) for the first n results
DetailedBatch(results, n) ==
    [k \in 1..n |-> [config |-> LegacyConfigs[k],
                     data |-> LegacySummarizeResult(results[k].stdout)]]

\* what the tool does once every configuration gave exit code 0:
\* csv_to_graph(convert_results_to_csv(results)) and the loop over its images
DetailedRender(batch) ==
    LET csv == ConvertResultsToCsv(batch)
    IN  IF ~csv.ok THEN RaisedOutcome(csv.exc)
        ELSE IF LegacyCsvToGraph(csv.text).kind = "None" THEN RaisedOutcome("TypeError")
        ELSE ImagesOutcome(LegacyCsvToGraph(csv.text).imgs)

\* openshift_detailed_performance of orion-mcp.py: synchronous, so one step.
\* A str result has no returncode (AttributeError); a nonzero exit code goes
\* to convert_results_to_csv(summarize_result([result])), where
\* summarize_result returns an error str that convert_results_to_csv cannot
\* walk (AttributeError).
LegacyOpenshiftDetailedPerformance ==
    /\ regPc = "idle"
    /\ regTool' = "legacy_openshift_detailed_performance"
    /\ regConfigs' = LegacyConfigs
    /\ \E results \in [DOMAIN LegacyConfigs -> DetailedResults] :
         LET stop == LegacyStop(results, 1)
             last == IF stop > Len(results) THEN Len(results) ELSE stop
         IN  /\ regResults' = SubSeq(results, 1, last)
             /\ regIdx' = last
             /\ IF stop <= Len(results)
                  THEN regPc' = "raised" /\ regOut' = RaisedOutcome("AttributeError")
                ELSE LET out == DetailedRender(DetailedBatch(results, Len(results)))
                     IN  /\ regOut' = out
                         /\ regPc' = IF out.kind = "exception" THEN "raised" ELSE "returned"
    /\ UNCHANGED regBlocks
    /\ UNCHANGED notRegVars

-----------------------------------------------------------------------------
(* openshift_report_on: one run_orion per requested version, the values of *)
(* one metric per version, and the multi-series renderer.                   *)

\* the metric the tool is asked for, and another one orion may report
ReportMetric == "cpu"

\* a text payload that names a version
TextAbout(text, ver) == [kind |-> "text", blocks |-> <<ver>>, text |-> text]

\* types.ImageContent made of what the renderer was given
ImageOutcome(drawn) == [kind |-> "image", blocks |-> drawn, text |-> ""]

\* version_list = [v.strip() for v in versions.split(',') if v.strip()]
VersionList(versions) ==
    LET parts == Split(versions, Comma)
    IN  SelectSeq([k \in DOMAIN parts |-> Strip(parts[k])], LAMBDA v : v # <<>>)

\* the mutant: the values are stored as they came
WithoutNoneKeepsAll(raw_values) == raw_values

\* values = [v for v in raw_values if v is not None]
WithoutNone(raw_values) == SelectSeq(raw_values, LAMBDA v : ~v.null)

\* series[ver] = values: a new label goes last, an old label keeps its place
SetSeries(series, ver, values) ==
    IF \E i \in DOMAIN series : series[i].label = ver
      THEN [i \in DOMAIN series |->
              IF series[i].label = ver THEN [label |-> ver, values |-> values] ELSE series[i]]
      ELSE Append(series, [label |-> ver, values |-> values])

\* generate_multi_line_plot: signals an error on an empty collection, else
\* draws one line per label whose series is not empty
GenerateMultiLinePlot(series) ==
    IF series = <<>> THEN [ok |-> FALSE, exc |-> "ValueError", drawn |-> <<>>]
    ELSE [ok |-> TRUE, exc |-> "", drawn |-> SelectSeq(series, LAMBDA e : e.values # <<>>)]

\* the end of openshift_report_on: the plot, or the text of its ValueError
ReportRender(series) ==
    IF GenerateMultiLinePlot(series).ok
      THEN ImageOutcome(GenerateMultiLinePlot(series).drawn)
      ELSE TextOutcome("ValueError of generate_multi_line_plot")

\* not isinstance(sum_result, dict) or metric not in sum_result
LacksMetric(sum_result, metric) ==
    sum_result.kind # "dict" \/ ~HasKey(sum_result.entries, metric)

\* the values of the metric in a summary that has it (none if it has not)
ValuesIn(sum_result, metric) ==
    IF HasKey(sum_result.entries, metric) THEN Lookup(sum_result.entries, metric).value
    ELSE <<>>

\* the mutant: a version without data is skipped and the loop goes on
ReportStepSkipsVersion(series, ver, sum_result, metric) ==
    IF LacksMetric(sum_result, metric) \/ WithoutNone(ValuesIn(sum_result, metric)) = <<>>
      THEN [done |-> FALSE, out |-> NoOutcome, series |-> series]
    ELSE [done |-> FALSE, out |-> NoOutcome,
          series |-> SetSeries(series, ver, WithoutNone(ValuesIn(sum_result, metric)))]

\* the body of the loop for one version: the text it returns, or the series
\* with the version's values stored
ReportStep(series, ver, sum_result, metric) ==
    IF LacksMetric(sum_result, metric)
      THEN [done |-> TRUE, out |-> TextAbout("No data for version", ver), series |-> series]
    ELSE IF WithoutNone(ValuesIn(sum_result, metric)) = <<>>
      THEN [done |-> TRUE, out |-> TextAbout("All values are None for version", ver),
            series |-> series]
    ELSE [done |-> FALSE, out |-> NoOutcome,
          series |-> SetSeries(series, ver, WithoutNone(ValuesIn(sum_result, metric)))]

\* the "versions" argument: up to MaxVersions comma-separated entries, each
\* a version, a version between blanks, a blank or nothing
VersionEntries == { <<>>, <<Blank>>, <<Chr("4.18")>>, <<Chr("4.19")>>, <<Chr("4.20")>>,
                    <<Blank, Chr("4.20"), Blank>> }

VersionsTexts ==
    {Join(es, Comma) : es \in UNION {[1..n -> VersionEntries] : n \in 0..MaxVersions}}

\* run records with the given values of cpu (none: the run reports lat only)
RunsWith(cpuValues, withCpu) ==
    [i \in DOMAIN cpuValues |->
       [hasTimestamp |-> TRUE, timestamp |-> 100 * i, hasMetrics |-> TRUE,
        metrics |-> IF withCpu
                      THEN <<[name |-> "cpu", hasValue |-> TRUE, value |-> cpuValues[i]],
                             [name |-> "lat", hasValue |-> TRUE, value |-> Num(2)]>>
                      ELSE <<[name |-> "lat", hasValue |-> TRUE, value |-> Num(2)]>>]]

\* what orion prints for a version: no delimiter, an empty array, runs
\* without cpu, runs whose cpu values are numbers and nulls, or a run with
\* cpu followed by a run without
ReportStdouts ==
    { <<Line("log")>>, Wrapped(<<>>), Wrapped(RunsWith(<<Null>>, FALSE)),
      Wrapped(RunsWith(<<Null, Null>>, TRUE)),
      Wrapped(RunsWith(<<Num(11), Num(21)>>, TRUE)),
      Wrapped(RunsWith(<<Null, Num(21)>>, TRUE)),
      Wrapped(<<RunsWith(<<Num(11), Num(21)>>, TRUE)[1],
                RunsWith(<<Num(11), Num(21)>>, FALSE)[2]>>) }

ReportResults == {CompletedProcess(0, out, "") : out \in ReportStdouts}

\* openshift_report_on is called and runs to its first "await run_orion",
\* or, without a version, to its end
CallReportOn ==
    /\ regPc = "idle"
    /\ regTool' = "openshift_report_on"
    /\ \E versions \in VersionsTexts :
         /\ regConfigs' = VersionList(versions)
         /\ IF VersionList(versions) = <<>>
              THEN regPc' = "returned" /\ regOut' = ReportRender(<<>>) /\ regIdx' = 0
              ELSE regPc' = "awaiting" /\ regOut' = regOut /\ regIdx' = 1
    /\ UNCHANGED <<regResults, regBlocks>>
    /\ UNCHANGED notRegVars

\* run_orion hands its result to the loop, which runs to the next await or
\* to a return
ResumeReportOn ==
    /\ regPc = "awaiting"
    /\ regTool = "openshift_report_on"
    /\ \E res \in ReportResults :
         LET step == ReportStep(regBlocks, regConfigs[regIdx],
                                SummarizeResult(res.stdout, ReportMetric), ReportMetric)
         IN  /\ regResults' = Append(regResults, res)
             /\ regBlocks' = step.series
             /\ IF step.done
                  THEN regPc' = "returned" /\ regOut' = step.out /\ regIdx' = regIdx
                ELSE IF regIdx < Len(regConfigs)
                  THEN regPc' = "awaiting" /\ regOut' = regOut /\ regIdx' = regIdx + 1
                ELSE regPc' = "returned" /\ regOut' = ReportRender(step.series)
                       /\ regIdx' = regIdx
    /\ UNCHANGED <<regTool, regConfigs>>
    /\ UNCHANGED notRegVars

-----------------------------------------------------------------------------
(* metrics_correlation, and orion_metrics with its tool get_orion_metrics.  *)

\* the two metrics metrics_correlation is asked for
CorrelationMetrics == <<"cpu", "lat">>

\* generate_correlation_plot: a scatter plot of the two sequences
GenerateCorrelationPlot(values1, values2) == <<values1, values2>>

\* the mutant: no except clause, the KeyError leaves the tool
CorrelationOutcomeUncaught(summary) ==
    IF summary.kind # "dict" THEN TextOutcome("Error processing Orion output")
    ELSE IF \E k \in DOMAIN CorrelationMetrics : ~HasKey(summary.entries, CorrelationMetrics[k])
      THEN RaisedOutcome("KeyError")
    ELSE ImageOutcome(GenerateCorrelationPlot(ValuesIn(summary, CorrelationMetrics[1]),
                                              ValuesIn(summary, CorrelationMetrics[2])))

\* metrics_correlation after summarize_result: the isinstance check, the
\* two lookups under "except KeyError", the plot
CorrelationOutcome(summary) ==
    IF summary.kind # "dict" THEN TextOutcome("Error processing Orion output")
    ELSE IF \E k \in DOMAIN CorrelationMetrics : ~HasKey(summary.entries, CorrelationMetrics[k])
      THEN TextOutcome("Requested metrics not present in the Orion summary")
    ELSE ImageOutcome(GenerateCorrelationPlot(ValuesIn(summary, CorrelationMetrics[1]),
                                              ValuesIn(summary, CorrelationMetrics[2])))

\* metrics_correlation is called and runs to its "await run_orion"
CallMetricsCorrelation ==
    /\ regPc = "idle"
    /\ regTool' = "metrics_correlation"
    /\ regConfigs' = <<ORION_CONFIGS_PATH \o "trt-external-payload-cluster-density.yaml">>
    /\ regIdx' = 1
    /\ regPc' = "awaiting"
    /\ UNCHANGED <<regResults, regBlocks, regOut>>
    /\ UNCHANGED notRegVars

\* run_orion hands its result to metrics_correlation, which runs to its end
ResumeMetricsCorrelation ==
    /\ regPc = "awaiting"
    /\ regTool = "metrics_correlation"
    /\ \E res \in ReportResults :
         /\ regResults' = Append(regResults, res)
         /\ regOut' = CorrelationOutcome(SummarizeResult(res.stdout, NoIsolate))
    /\ regPc' = "returned"
    /\ UNCHANGED <<regTool, regConfigs, regIdx, regBlocks>>
    /\ UNCHANGED notRegVars

\* an element of a Python list: a str, or a list of str
StrItem(name) == [isList |-> FALSE, name |-> name, items |-> <<>>]

ListItem(names) == [isList |-> TRUE, name |-> "", items |-> names]

\* list(sum_result.keys())
KeysOf(entries) == [k \in DOMAIN entries |-> entries[k].key]

\* metrics[config] = [] and metrics[config].append(list(sum_result.keys()))
MetricsValue(sum_result) == <<ListItem(KeysOf(sum_result.entries))>>

\* what orion_metrics hands back: the mapping, or an error str
MappingOutcome(items) == [kind |-> "mapping", blocks |-> items, text |-> ""]

\* get_orion_metrics is called and runs to the first "await run_orion" of
\* orion_metrics([ORION_CONFIGS_PATH + config])
CallGetOrionMetrics ==
    /\ regPc = "idle"
    /\ regTool' = "get_orion_metrics"
    /\ \E config \in {"small-scale-udn-l3.yaml", "med-scale-udn-l3.yaml"} :
         regConfigs' = <<ORION_CONFIGS_PATH \o config>>
    /\ regIdx' = 1
    /\ regPc' = "awaiting"
    /\ UNCHANGED <<regResults, regBlocks, regOut>>
    /\ UNCHANGED notRegVars

\* run_orion hands its result to the loop of orion_metrics, which runs to
\* the next await or to the return; get_orion_metrics turns a str into
\* {"error": "Failed to fetch Orion metrics: ..."}
ResumeGetOrionMetrics ==
    /\ regPc = "awaiting"
    /\ regTool = "get_orion_metrics"
    /\ \E res \in ReportResults :
         LET sum_result == SummarizeResult(res.stdout, NoIsolate)
             metrics == Append(regBlocks, [config |-> regConfigs[regIdx],
                                           value |-> MetricsValue(sum_result)])
         IN  /\ regResults' = Append(regResults, res)
             /\ IF sum_result.kind # "dict"
                  THEN /\ regPc' = "returned"
                       /\ regOut' = MappingOutcome(<<[config |-> "error",
                                        value |-> <<StrItem("Failed to fetch Orion metrics")>>]>>)
                       /\ UNCHANGED <<regBlocks, regIdx>>
                ELSE IF regIdx < Len(regConfigs)
                  THEN /\ regPc' = "awaiting"
                       /\ regIdx' = regIdx + 1
                       /\ regBlocks' = metrics
                       /\ UNCHANGED regOut
                ELSE /\ regPc' = "returned"
                     /\ regBlocks' = metrics
                     /\ regOut' = MappingOutcome(metrics)
                     /\ UNCHANGED regIdx
    /\ UNCHANGED <<regTool, regConfigs>>
    /\ UNCHANGED notRegVars

-----------------------------------------------------------------------------
(* Specifications. *)

RunnerIdle ==
    /\ environ = [k \in EnvKeys |-> IF k = "ES_SERVER" THEN "es1" ELSE Unset]
    /\ pc = [t \in Tasks |-> "idle"]
    /\ inv = [t \in Tasks |-> NoInv]
    /\ envBefore = [t \in Tasks |-> environ]
    /\ envVars = [t \in Tasks |-> [k \in EnvKeys |-> Unset]]
    /\ child = [t \in Tasks |-> NoChild]
    /\ fault = [t \in Tasks |-> "none"]
    /\ result = [t \in Tasks |-> NoResult]
    /\ loopHolder = NoTask
    /\ calls = [t \in Tasks |-> 0]

\* the Process Runner under concurrent invocations
Init == RunnerInit /\ SumIdle /\ ExIdle /\ RegIdle /\ CsvIdle

Next == \E t \in Tasks : TaskStep(t)

Spec == Init /\ [][Next]_vars

\* the Output Normalizer applied to one stdout
InitSummarize == SumInit /\ RunnerIdle /\ ExIdle /\ RegIdle /\ CsvIdle

NextSummarize == Summarize \/ LegacySummarize

SpecSummarize == InitSummarize /\ [][NextSummarize]_vars

\* the Output Normalizer applied to runs with a metric named "timestamp"
InitReserved == SumInitReserved /\ RunnerIdle /\ ExIdle /\ RegIdle /\ CsvIdle

SpecReserved == InitReserved /\ [][NextSummarize]_vars

\* the Regression Extractor applied to one stdout
InitExtract == ExInit /\ RunnerIdle /\ SumIdle /\ RegIdle /\ CsvIdle

NextExtract == Extract

SpecExtract == InitExtract /\ [][NextExtract]_vars

\* the Regression Extractor applied to records that differ in their prs
InitPrs == ExInitPrs /\ RunnerIdle /\ SumIdle /\ RegIdle /\ CsvIdle

SpecPrs == InitPrs /\ [][NextExtract]_vars

\* a batch is encoded and rendered
InitCsv == CsvInit /\ RunnerIdle /\ SumIdle /\ ExIdle /\ RegIdle

NextCsv == Encode \/ Render \/ LegacyRender

SpecCsv == InitCsv /\ [][NextCsv]_vars

\* one call of a regression tool
InitRegress == RegIdle /\ RunnerIdle /\ SumIdle /\ ExIdle /\ CsvIdle

NextRegress ==
    \/ CallRegressionTool
    \/ ResumeRegressionChecks
    \/ LegacyHasOpenshiftRegressed
    \/ LegacyOpenshiftDetailedPerformance

SpecRegress == InitRegress /\ [][NextRegress]_vars

\* one call of a reporting tool
NextReport ==
    \/ CallReportOn
    \/ ResumeReportOn
    \/ CallMetricsCorrelation
    \/ ResumeMetricsCorrelation
    \/ CallGetOrionMetrics
    \/ ResumeGetOrionMetrics

SpecReport == InitRegress /\ [][NextReport]_vars

-----------------------------------------------------------------------------
(* Claims about the Process Runner. *)

\* C2: every launch failure of the Process Runner (executable not found,
\* permission denied, malformed arguments) is returned as a ProcessResult with
\* exit_code 1, empty stdout and a diagnostic in stderr; it is never raised
\* as an exception and never returned as a value of another shape.
C2_LaunchFailureIsProcessResult ==
    \A t \in Tasks :
        fault[t] # "none" =>
            /\ pc[t] = "done"
            /\ result[t].shape = "ProcessResult"
            /\ result[t].returncode = 1
            /\ result[t].stdout = ""
            /\ result[t].stderr # ""

\* C3: whenever invocations with different version labels or data-source
\* URLs are in flight together, each child process was launched with the
\* version and data source of its own invocation (an override wins over the
\* ambient value of the same key), never with another invocation's.
C3_ChildSeesOwnInvocation ==
    \A t \in Tasks :
        child[t].launched =>
            /\ inv[t].kind \in {"run_orion", "legacy"} =>
                  /\ child[t].env["version"] = inv[t].version
                  /\ child[t].env["ES_SERVER"] = inv[t].data_source
            /\ (inv[t].kind = "run_command" /\ inv[t].hasEnv) =>
                  child[t].env["version"] = inv[t].version

\* C3 witness: two children run at once for invocations with different
\* versions, one of them launched over an ambient "version" it overrides.
C3_Witness ==
    \E t, u \in Tasks :
        /\ t # u
        /\ child[t].running /\ child[u].running
        /\ inv[t].version # inv[u].version
        /\ inv[t].kind = "run_orion"
        /\ envBefore[t]["version"] \notin {Unset, inv[t].version}

\* C4: an invocation leaves the ambient environment unchanged: once it has
\* returned or raised, every key of os.environ has the value it had when the
\* invocation was called.
C4_AmbientEnvironmentUnchanged ==
    \A t \in Tasks :
        pc[t] \in {"done", "raised"} => environ = envBefore[t]

\* C5: a wait for a child suspends only the waiting task: while one
\* invocation's child is still running, every other invocation that is under
\* way can take its next step (none needs the first child to exit).
C5_WaitSuspendsOnlyItsTask ==
    \A t, u \in Tasks :
        (t # u /\ child[t].running /\ pc[u] \in {"spawning", "waiting"}) =>
            ENABLED TaskStep(u)

-----------------------------------------------------------------------------
(* Claims about the Output Normalizer. *)

\* what the summarize_result that ran parsed stdout to
SumParsed ==
    IF sumImpl = "legacy" THEN JsonLoads(sumStdout) ELSE ExtractJsonBlock(sumStdout)

\* every metric of every run, in run order
RECURSIVE Occurrences(_, _)
Occurrences(a, i) ==
    IF i > Len(a) THEN <<>> ELSE a[i].metrics \o Occurrences(a, i + 1)

\* the names of a sequence of metrics, each at its first place only
RECURSIVE FirstAppearance(_, _)
FirstAppearance(occ, seen) ==
    IF occ = <<>> THEN <<>>
    ELSE IF occ[1].name \in seen THEN FirstAppearance(Tail(occ), seen)
    ELSE <<occ[1].name>> \o FirstAppearance(Tail(occ), seen \cup {occ[1].name})

\* the values a sequence of metrics gives for one name, in order
ValuesOf(occ, name) ==
    LET sel == SelectSeq(occ, LAMBDA m : m.name = name)
    IN  [k \in DOMAIN sel |-> sel[k].value]

\* the metric entries of a summary: all but the reserved "timestamp"
MetricEntries(entries) == SelectSeq(entries, LAMBDA e : e.key # "timestamp")

\* C6: for a valid array of run records (a run's metrics mapping may be
\* empty) summarize returns an empty summary when the array is empty, and
\* otherwise a summary whose "timestamp" is the last run's timestamp.
C6_TimestampOfLastRun ==
    (sumPc = "done" /\ SumParsed.ok /\ IsValidArray(SumParsed.runs)) =>
        IF SumParsed.runs = <<>>
          THEN sumResult = DictResult(<<>>)
          ELSE /\ sumResult.kind = "dict"
               /\ HasKey(sumResult.entries, "timestamp")
               /\ Lookup(sumResult.entries, "timestamp").ts =
                      SumParsed.runs[Len(SumParsed.runs)].timestamp

\* C7: summarize with isolate = X returns a mapping whose keys are among X
\* and "timestamp", whatever other metrics the runs hold.
C7_IsolateKeepsOnlyItsMetric ==
    (sumPc = "done" /\ sumIsolate # NoIsolate /\ sumResult.kind = "dict") =>
        \A i \in DOMAIN sumResult.entries :
            sumResult.entries[i].key \in {sumIsolate, "timestamp"}

\* C7 witness: isolate = "cpu" over runs that hold "cpu" and "lat" gave a
\* mapping with the key "cpu".
C7_Witness ==
    /\ sumPc = "done" /\ sumIsolate = "cpu" /\ sumResult.kind = "dict"
    /\ HasKey(sumResult.entries, "cpu")
    /\ \E i \in DOMAIN SumParsed.runs :
          {SumParsed.runs[i].metrics[k].name : k \in DOMAIN SumParsed.runs[i].metrics}
              = {"cpu", "lat"}

\* C8: the summary of a valid array lists the metrics in the order they
\* first appear across the runs, and each metric's value sequence is that
\* metric's values in run order, a null value kept at its place.
C8_OrderAndValuesFollowTheRuns ==
    (sumPc = "done" /\ SumParsed.ok /\ IsValidArray(SumParsed.runs)
        /\ sumResult.kind = "dict") =>
        LET kept == SelectSeq(Occurrences(SumParsed.runs, 1),
                              LAMBDA m : sumIsolate \in {NoIsolate, m.name})
            got  == MetricEntries(sumResult.entries)
        IN  /\ [i \in DOMAIN got |-> got[i].key] = FirstAppearance(kept, {})
            /\ \A i \in DOMAIN got :
                  ~got[i].scalar /\ got[i].value = ValuesOf(kept, got[i].key)

\* C8 witness: two runs, "lat" first seen before "cpu", and a null value of
\* "lat" followed by a number.
C8_Witness ==
    /\ sumPc = "done" /\ sumIsolate = NoIsolate /\ sumResult.kind = "dict"
    /\ IsValidArray(SumParsed.runs)
    /\ LET got == MetricEntries(sumResult.entries)
       IN  /\ Len(got) = 2
           /\ got[1].key = "lat" /\ got[2].key = "cpu"
           /\ Len(got[1].value) = 2
           /\ got[1].value[1] = Null /\ got[1].value[2] # Null

\* C9: for a stdout that is no usable payload (no delimiter line, nothing
\* after the delimiter, malformed JSON, or a run record without "metrics",
\* "timestamp" or a metric's "value") summarize returns an error string,
\* never a mapping.
C9_UnusableStdoutGivesErrorText ==
    (sumPc = "done" /\ sumImpl = "utils"
        /\ (~ExtractJsonBlock(sumStdout).ok
               \/ ~IsValidArray(ExtractJsonBlock(sumStdout).runs))) =>
        sumResult.kind = "str"

-----------------------------------------------------------------------------
(* Claims about the regression tools. *)

\* the indices of the results whose stdout holds a changepoint record
HoldsChangepoint(res) ==
    LET parsed == JsonLoads(res.stdout)
    IN  parsed.ok /\ \E k \in DOMAIN parsed.runs : parsed.runs[k].isChangepoint = "true"

\* C1: in the regression-check flow, a result with exit code 3 has its
\* changepoint records reported, a result with exit code 0 adds nothing and
\* a result with any other exit code is no changepoint: the report names
\* exactly the configurations whose result has exit code 3 and holds a
\* changepoint record.  For two configurations whose results are exit code 1
\* without changepoint and exit code 3 with one changepoint record whose one
\* metric rose by 15, the report is one block that names the second
\* configuration and holds the line "<metric> increased by 15.00%".  The
\* yes-or-no tool of orion-mcp.py answers yes exactly when a result has exit
\* code 3.
C1_ExitCodeThreeIsTheChangepoint ==
    /\ (regPc = "returned" /\ regTool \in {"has_openshift_regressed", "has_networking_regressed"}) =>
         /\ \A i \in DOMAIN regResults :
              (\E k \in DOMAIN regOut.blocks : regOut.blocks[k].config = regConfigs[i])
                <=> (regResults[i].returncode = 3 /\ HoldsChangepoint(regResults[i]))
         /\ (/\ Len(regResults) = 2
             /\ regResults[1].returncode = 1 /\ ~HoldsChangepoint(regResults[1])
             /\ regResults[2].returncode = 3
             /\ regResults[2].stdout = <<JsonLine(<<QuietRecord, ChangepointRecord>>)>>)
            => /\ regOut.kind = "report"
               /\ Len(regOut.blocks) = 1
               /\ regOut.blocks[1].config = regConfigs[2]
               /\ regOut.blocks[1].metrics =
                    <<[metric |-> "cpu", change |-> "increased",
                       by |-> [whole |-> 15, frac |-> 0]]>>
    /\ (regPc = "returned" /\ regTool = "legacy_has_openshift_regressed") =>
         (regOut = BoolOutcome(TRUE) <=> \E i \in DOMAIN regResults : regResults[i].returncode = 3)

-----------------------------------------------------------------------------
(* Claims about the Regression Extractor. *)

ExData == JsonLoads(exStdout).runs

\* the indices of the changepoint records, in the order of the array
ChangepointIndices ==
    SelectSeq([i \in DOMAIN ExData |-> i], LAMBDA i : ExData[i].isChangepoint = "true")

\* the metrics mapping of a record, as a sequence of items
MetricsOf(dat) == IF dat.hasMetrics THEN dat.metrics ELSE <<>>

\* the lines of a detail that speak of one metric
LinesAbout(det, name) == SelectSeq(det.metrics, LAMBDA l : l.metric = name)

\* a two-decimal text is the hundredth nearest to x thousandths (12.345,
\* which the float holds just above, shows as 12.35)
IsTwoDecimalsOf(by, x) ==
    /\ by.frac \in 0..99
    /\ by.whole >= 0
    /\ 10 * (100 * by.whole + by.frac) - x \in -4..5

\* C10: for every parsed array of changepoint records, the Regression
\* Extractor emits one detail per record whose is_changepoint is true, in
\* the order of the array, and nothing for a record whose is_changepoint is
\* false or missing; in the detail of a record, each metric has exactly one
\* line "<metric> increased by <p>%" when its percentage_change is above 0,
\* exactly one line "<metric> decreased by <|p|>%" when it is below 0, and no
\* line when it is 0 (or absent); no line speaks of anything else.
C10_LinesOnlyForChangepoints ==
    (exPc = "done" /\ exOut.ok) =>
      /\ Len(exOut.details) = Len(ChangepointIndices)
      /\ \A k \in DOMAIN exOut.details :
           LET dat == ExData[ChangepointIndices[k]]
               det == exOut.details[k]
           IN  /\ det.uuid = dat.uuid
               /\ \A l \in DOMAIN det.metrics :
                    \E m \in DOMAIN MetricsOf(dat) : MetricsOf(dat)[m].name = det.metrics[l].metric
               /\ \A m \in DOMAIN MetricsOf(dat) :
                    LET info == MetricsOf(dat)[m]
                        p == IF info.hasPct THEN info.pct ELSE 0
                        lines == LinesAbout(det, info.name)
                    IN  /\ p = 0 => lines = <<>>
                        /\ p > 0 => /\ Len(lines) = 1
                                    /\ lines[1].change = "increased"
                                    /\ IsTwoDecimalsOf(lines[1].by, p)
                        /\ p < 0 => /\ Len(lines) = 1
                                    /\ lines[1].change = "decreased"
                                    /\ IsTwoDecimalsOf(lines[1].by, -p)

\* a changepoint record with a risen and a fallen metric, next to a record
\* that is no changepoint and whose metric changed, has been extracted
C10_Witness ==
    /\ exPc = "done" /\ exOut.ok
    /\ Len(exOut.details) = 1
    /\ Len(ExData) = 2
    /\ \E l \in DOMAIN exOut.details[1].metrics : exOut.details[1].metrics[l].change = "increased"
    /\ \E l \in DOMAIN exOut.details[1].metrics : exOut.details[1].metrics[l].change = "decreased"
    /\ \E i \in DOMAIN ExData :
         /\ ExData[i].isChangepoint # "true"
         /\ \E m \in DOMAIN MetricsOf(ExData[i]) : MetricsOf(ExData[i])[m].pct # 0

\* the elements of a sequence
Elems(seq) == {seq[j] : j \in DOMAIN seq}

\* sub is what is left of seq when the elements of gone are struck out, in
\* the order of seq
IsDifference(sub, seq, gone) ==
    \E f \in [DOMAIN sub -> DOMAIN seq] :
      /\ \A a, b \in DOMAIN sub : a < b => f[a] < f[b]
      /\ \A a \in DOMAIN sub : sub[a] = seq[f[a]]
      /\ {f[a] : a \in DOMAIN sub} = {j \in DOMAIN seq : seq[j] \notin gone}

\* C11: the detail of the changepoint record at index i carries the version
\* label of the record at index i-1 (absent for the first record) and, as
\* prs_added, the prs of record i without the prs of record i-1, in the
\* order of record i; a PR that only record i-1 has is never listed; a
\* record without prs, or with an empty metrics mapping, counts as having no
\* prs and makes nothing fail.
C11_PreviousVersionAndAddedPrs ==
    exPc = "done" =>
      /\ exOut.ok
      /\ Len(exOut.details) = Len(ChangepointIndices)
      /\ \A k \in DOMAIN exOut.details :
           LET i == ChangepointIndices[k]
               det == exOut.details[k]
               cur == IF ExData[i].hasPrs THEN ExData[i].prs ELSE <<>>
               prev == IF i > 1 /\ ExData[i - 1].hasPrs THEN ExData[i - 1].prs ELSE <<>>
           IN  /\ det.previousOcpVersion = IF i = 1 THEN NoneStr ELSE ExData[i - 1].ocpVersion
               /\ IsDifference(det.prs_added, cur, Elems(prev))
               /\ Elems(det.prs_added) \cap Elems(prev) = {}

\* the second record is a changepoint that gained a PR and lost another
\* against the first, and its detail has been produced
C11_Witness ==
    /\ exPc = "done" /\ exOut.ok
    /\ Len(ExData) = 2
    /\ ExData[2].isChangepoint = "true"
    /\ ExData[1].hasPrs /\ ExData[2].hasPrs
    /\ Elems(ExData[1].prs) \ Elems(ExData[2].prs) # {}
    /\ Elems(ExData[2].prs) \ Elems(ExData[1].prs) # {}
    /\ exOut.details[Len(exOut.details)].prs_added # <<>>
    /\ exOut.details[Len(exOut.details)].previousOcpVersion = "4.18"

-----------------------------------------------------------------------------
(* Claims about the Tabular Encoder and the single-series renderer. *)

\* a name holds neither a comma nor a newline
IsPlainName(name) == \A j \in DOMAIN TextOf(name) : TextOf(name)[j] \notin {Comma, Newline}

\* every summary of the batch is a mapping
BatchOfSummaries == \A i \in DOMAIN csvBatch : csvBatch[i].data.kind = "dict"

\* no configuration or metric name of the batch holds a comma or a newline
BatchOfPlainNames ==
    \A i \in DOMAIN csvBatch :
      /\ IsPlainName(csvBatch[i].config)
      /\ \A k \in DOMAIN csvBatch[i].data.entries : IsPlainName(csvBatch[i].data.entries[k].key)

\* the (configuration, metric) pairs of the batch: <<i, k>> for entry k of
\* result i, the reserved key left out
BatchPairs ==
    UNION {{<<i, k>> : k \in {j \in DOMAIN csvBatch[i].data.entries :
                                   csvBatch[i].data.entries[j].key # "timestamp"}} :
           i \in DOMAIN csvBatch}

\* the place of a pair in batch order
PairRank(q) ==
    1 + Cardinality({r \in BatchPairs : r[1] < q[1] \/ (r[1] = q[1] /\ r[2] < q[2])})

\* the lines of the encoded text
CsvLinesOfText == IF csvText = <<>> THEN <<>> ELSE Split(csvText, Newline)

\* C12: the Tabular Encoder outputs exactly one line
\* "configuration,metric,v1,v2,..." per (configuration, metric) pair, in
\* batch order, no line for the reserved key "timestamp" and no line for a
\* configuration whose summary is empty; the batch
\* [{cfgA: {timestamp: t1, lat: {value: [1, 2]}}}] gives the one line
\* "cfgA,lat,1,2".  (Lines and fields are counted for names that hold no
\* comma and no newline.)
C12_OneLinePerPair ==
    (csvPc \in {"encoded", "rendered"} /\ BatchOfSummaries) =>
      /\ BatchOfPlainNames =>
           /\ Len(CsvLinesOfText) = Cardinality(BatchPairs)
           /\ \A q \in BatchPairs :
                LET entry == csvBatch[q[1]].data.entries[q[2]]
                IN  Split(CsvLinesOfText[PairRank(q)], Comma) =
                      <<TextOf(csvBatch[q[1]].config), TextOf(entry.key)>>
                        \o (IF entry.value = <<>> THEN << <<>> >>
                            ELSE [k \in DOMAIN entry.value |-> Str(entry.value[k])])
      /\ csvBatch = <<[config |-> "cfgA",
                       data |-> DictResult(<<TimestampEntry(100),
                                             MetricEntry("lat", <<Num(1), Num(2)>>)>>)]>>
           => csvText = <<Chr("cfgA"), Comma, Chr("lat"), Comma, NumTok(1), Comma, NumTok(2)>>

\* a batch of an empty summary and of a summary with two metrics has been
\* encoded
C12_Witness ==
    /\ csvPc = "encoded"
    /\ BatchOfSummaries /\ BatchOfPlainNames
    /\ Len(csvBatch) = 2
    /\ csvBatch[1].data.entries = <<>>
    /\ Len(csvBatch[2].data.entries) = 3
    /\ Len(CsvLinesOfText) = 2

\* the legacy tool's results all have exit code 0 and summaries in which no
\* metric has a number
OnlyAbsentValues ==
    /\ \A i \in DOMAIN regResults :
         /\ regResults[i].shape = "ProcessResult"
         /\ regResults[i].returncode = 0
         /\ LegacySummarizeResult(regResults[i].stdout).kind = "dict"
         /\ \A k \in DOMAIN LegacySummarizeResult(regResults[i].stdout).entries :
              \A j \in DOMAIN LegacySummarizeResult(regResults[i].stdout).entries[k].value :
                LegacySummarizeResult(regResults[i].stdout).entries[k].value[j].null
    /\ Len(regResults) = Len(regConfigs)

\* C13: single-series rendering of a batch in which no metric keeps a
\* numeric value gives zero images and the calling operation completes
\* without an exception; and no returned image belongs to a group without
\* numeric values.
C13_NoNumbersGiveZeroImages ==
    (regTool = "legacy_openshift_detailed_performance" /\ regPc \in {"returned", "raised"}) =>
      /\ OnlyAbsentValues => regOut = ImagesOutcome(<<>>)
      /\ regOut.kind = "images" =>
           \A k \in DOMAIN regOut.blocks : regOut.blocks[k].values # <<>>

\* a result the tool consumed came from a child that ran and exited with an
\* error code
ConsumedAnErrorExit ==
    \E i \in DOMAIN regResults :
      /\ regResults[i].shape = "ProcessResult"
      /\ regResults[i].returncode \notin {0, 3}

\* C14: when a child ran and exited with an error code (neither "no
\* changepoint" nor "changepoint found"), the operation that consumed the
\* result returns a text, the diagnostic: it does not raise, it does not
\* answer "No changepoints found", and it reports no changepoint, no
\* regression and no image.
C14_ErrorExitIsDiagnosed ==
    (regPc \in {"returned", "raised"} /\ ConsumedAnErrorExit) =>
      /\ regPc = "returned"
      /\ regOut.kind = "text"
      /\ regOut.text # "No changepoints found"

-----------------------------------------------------------------------------
(* A claim about the data source of the Process Runner. *)

\* C17: a request whose data source is unset (get_data_source() found no
\* ES_SERVER, and hands on None) or empty aborts in run_orion before any
\* child process is launched, with the dedicated "Data source is not set"
\* error (a ValueError): once run_orion has been called with such a data
\* source, the invocation has raised that error and has no child.
C17_NoDataSourceAbortsInRunOrion ==
    \A t \in Tasks :
        (inv[t].kind = "run_orion" /\ inv[t].data_source \in {"", PyNone}) =>
            /\ pc[t] = "raised"
            /\ result[t] = Raised("ValueError")
            /\ ~child[t].launched

-----------------------------------------------------------------------------
(* Claims about openshift_report_on, metrics_correlation and               *)
(* get_orion_metrics.                                                       *)

\* the summary openshift_report_on made of its i-th invocation
ReportSummary(i) == SummarizeResult(regResults[i].stdout, ReportMetric)

\* the i-th invocation's summary is a mapping that has the metric with at
\* least one value that is not absent
GaveAValue(i) ==
    /\ ReportSummary(i).kind = "dict"
    /\ \E k \in DOMAIN ReportSummary(i).entries :
         /\ ReportSummary(i).entries[k].key = ReportMetric
         /\ \E j \in DOMAIN ReportSummary(i).entries[k].value :
              ~ReportSummary(i).entries[k].value[j].null

\* C15: in openshift_report_on, at every point of the loop the series
\* collection holds for each stored label a non-empty sequence without any
\* absent value; and when the collection is empty at render time (no
\* version, or blank entries only) the multi-series renderer signals an
\* error and the operation returns a text payload, never an image.
C15_SeriesHoldNoAbsentValue ==
    regTool = "openshift_report_on" =>
      /\ \A i \in DOMAIN regBlocks :
           /\ regBlocks[i].values # <<>>
           /\ \A j \in DOMAIN regBlocks[i].values : ~regBlocks[i].values[j].null
      /\ (regPc = "returned" /\ regConfigs = <<>>) =>
           /\ regBlocks = <<>>
           /\ regOut = TextOutcome("ValueError of generate_multi_line_plot")

\* the loop has stored the series of a version whose raw values held an
\* absent one, and has drawn it
C15_Witness ==
    /\ regTool = "openshift_report_on"
    /\ regPc = "returned"
    /\ regOut.kind = "image"
    /\ Len(regResults) = 2
    /\ \E k \in DOMAIN ReportSummary(2).entries :
         /\ ReportSummary(2).entries[k].key = ReportMetric
         /\ \E j \in DOMAIN ReportSummary(2).entries[k].value :
              ReportSummary(2).entries[k].value[j].null
    /\ Len(regBlocks) = 2

\* the summary a tool made of its last invocation: openshift_report_on
\* isolates its metric, metrics_correlation does not
LastSummary ==
    SummarizeResult(regResults[Len(regResults)].stdout,
                    IF regTool = "openshift_report_on" THEN ReportMetric ELSE NoIsolate)

\* the metrics a tool was asked for
RequestedMetrics ==
    IF regTool = "openshift_report_on" THEN {ReportMetric}
    ELSE {CorrelationMetrics[k] : k \in DOMAIN CorrelationMetrics}

\* the last summary is an error string, or a requested metric is not among
\* its keys
LastSummaryLacksAMetric ==
    \/ LastSummary.kind # "dict"
    \/ \E m \in RequestedMetrics :
         \A k \in DOMAIN LastSummary.entries : LastSummary.entries[k].key # m

C18_MetricNamesAreAFlatList ==
    (regTool = "get_orion_metrics" /\ regPc = "returned") =>
      /\ regOut.kind = "mapping"
      /\ \A i \in DOMAIN regOut.blocks :
           \A k \in DOMAIN regOut.blocks[i].value : ~regOut.blocks[i].value[k].isList
      /\ (\A i \in DOMAIN regResults :
            SummarizeResult(regResults[i].stdout, NoIsolate).kind = "dict")
           => [i \in DOMAIN regOut.blocks |-> regOut.blocks[i].config] = regConfigs

\* C19: openshift_report_on takes the versions in list order, one
\* invocation at a time; at the first version whose summary is not a
\* mapping, lacks the metric or has only absent values it returns a text
\* payload naming that version and invokes nothing for a later version; it
\* returns an image only if every requested version gave a value that is
\* not absent.
C19_StopsAtFirstVersionWithoutData ==
    regTool = "openshift_report_on" =>
      /\ Len(regResults) <= Len(regConfigs)
      /\ regPc = "awaiting" => (regIdx = Len(regResults) + 1 /\ regIdx <= Len(regConfigs))
      /\ \A i \in DOMAIN regResults : i < Len(regResults) => GaveAValue(i)
      /\ \A i \in DOMAIN regBlocks :
           \E k \in DOMAIN regResults :
             /\ regBlocks[i].label = regConfigs[k]
             /\ \A l \in 1..(i - 1) : \E m \in 1..(k - 1) : regBlocks[l].label = regConfigs[m]
      /\ (regPc = "returned" /\ regResults # <<>> /\ ~GaveAValue(Len(regResults))) =>
           /\ regOut.kind = "text"
           /\ regOut.blocks = <<regConfigs[Len(regResults)]>>
      /\ (regPc = "returned" /\ regOut.kind = "image") =>
           /\ regConfigs # <<>>
           /\ Len(regResults) = Len(regConfigs)
           /\ \A i \in DOMAIN regResults : GaveAValue(i)

\* of two requested versions the first gave no value: the tool has
\* returned the text about it after one invocation
C19_Witness ==
    /\ regTool = "openshift_report_on"
    /\ regPc = "returned"
    /\ Len(regConfigs) = 2
    /\ Len(regResults) = 1
    /\ ~GaveAValue(1)
    /\ regOut = TextAbout("All values are None for version", regConfigs[1])

-----------------------------------------------------------------------------
(* The round trip of the Tabular Encoder and the single-series renderer. *)

\* the (configuration, metric) pairs of the batch are pairwise distinct
DistinctPairs ==
    \A q, r \in BatchPairs :
      q # r => \/ csvBatch[q[1]].config # csvBatch[r[1]].config
               \/ csvBatch[q[1]].data.entries[q[2]].key # csvBatch[r[1]].data.entries[r[2]].key

\* no configuration name of the batch begins with whitespace
NoLeadingWhitespace ==
    \A i \in DOMAIN csvBatch : ~IsWhitespace(TextOf(csvBatch[i].config)[1])

\* the values of an entry that are numbers, in their order
NumbersOf(entry) == SelectSeq(entry.value, LAMBDA v : ~v.null)

\* the groups of the batch that have a number
GroupsWithANumber ==
    { [file_path |-> TextOf(csvBatch[q[1]].config),
       metric_name |-> TextOf(csvBatch[q[1]].data.entries[q[2]].key),
       values |-> NumbersOf(csvBatch[q[1]].data.entries[q[2]])] :
      q \in {r \in BatchPairs : NumbersOf(csvBatch[r[1]].data.entries[r[2]]) # <<>>} }

\* every decoded group comes from a line of 3 fields or more
GroupsComeFromFullLines ==
    \A i \in DOMAIN csvOut.imgs :
      \E k \in DOMAIN CsvLinesOfText :
        /\ Len(Split(CsvLinesOfText[k], Comma)) >= 3
        /\ Strip(Split(CsvLinesOfText[k], Comma)[1]) = Strip(csvOut.imgs[i].file_path)
        /\ Split(CsvLinesOfText[k], Comma)[2] = csvOut.imgs[i].metric_name

\* the decoded groups are those of the batch that have a number
DecodedIsGroupsWithANumber ==
    /\ Elems(csvOut.imgs) = GroupsWithANumber
    /\ Len(csvOut.imgs) = Cardinality(GroupsWithANumber)

\* C20, as stated: for every batch whose configuration and metric names
\* hold no comma or newline and whose (configuration, metric) pairs are
\* pairwise distinct, decoding the encoder's output recovers exactly the
\* groups that have a numeric value, each with its numeric values in the
\* original order and without the absent ones; lines with fewer than 3
\* fields are discarded.
C20_RoundTripAsStated ==
    (csvPc = "rendered" /\ BatchOfSummaries) =>
      /\ GroupsComeFromFullLines
      /\ (BatchOfPlainNames /\ DistinctPairs) => DecodedIsGroupsWithANumber

\* C20, amended: the same for batches whose configuration names moreover do
\* not begin with whitespace.
C20_RoundTrip ==
    (csvPc = "rendered" /\ BatchOfSummaries) =>
      /\ GroupsComeFromFullLines
      /\ (BatchOfPlainNames /\ DistinctPairs /\ NoLeadingWhitespace)
           => DecodedIsGroupsWithANumber

\* a batch of two configurations, one with absent values around a number,
\* has been encoded and decoded into three groups
C20_Witness ==
    /\ csvPc = "rendered"
    /\ BatchOfSummaries /\ BatchOfPlainNames /\ DistinctPairs /\ NoLeadingWhitespace
    /\ Len(csvBatch) = 2
    /\ \E k \in DOMAIN csvBatch[1].data.entries :
         csvBatch[1].data.entries[k].value = <<Null, Num(3), Null>>
    /\ Len(csvOut.imgs) = 3
    /\ csvOut.imgs[1].values = <<Num(3)>>

\* C21: for every process output that summarize_result accepts, the two
\* value sequences metrics_correlation hands to the correlation scatter
\* renderer have the same length, one entry per run, and hold only numbers.
C21_CorrelationGetsEqualNumericSequences ==
    (regTool = "metrics_correlation" /\ regPc = "returned" /\ regOut.kind = "image") =>
      /\ Len(regOut.blocks[1]) = Len(regOut.blocks[2])
      /\ \A k \in DOMAIN regOut.blocks :
           /\ Len(regOut.blocks[k]) = Len(ExtractJsonBlock(regResults[1].stdout).runs)
           /\ \A j \in DOMAIN regOut.blocks[k] : ~regOut.blocks[k][j].null

\* C22: summarize_result keeps the reserved key "timestamp" apart from the
\* metric data: for every valid run-record array, one with a metric named
\* "timestamp" included, the result is a mapping in which "timestamp" holds
\* a run timestamp and every other key a {value: sequence} record; a metric
\* name that collides with the reserved key makes nothing fail.
C22_ReservedKeyKeptApart ==
    (sumPc = "done" /\ SumParsed.ok /\ IsValidArray(SumParsed.runs)) =>
      /\ sumResult.kind = "dict"
      /\ \A i \in DOMAIN sumResult.entries :
           IF sumResult.entries[i].key = "timestamp"
             THEN /\ sumResult.entries[i].scalar
                  /\ \E k \in DOMAIN SumParsed.runs :
                       sumResult.entries[i].ts = SumParsed.runs[k].timestamp
             ELSE ~sumResult.entries[i].scalar

=============================================================================
